---- MODULE Spec2Model ----
(***************************************************************************)
(* A model of the UVM channel layer of src/general_evaluation/cflow/14.c:  *)
(* GPFIFO rings with CPU producers and an asynchronous GPU consumer,       *)
(* channel claiming, progress reclamation, channel error checks, the       *)
(* channel manager's construction with its copy engine selection, and its  *)
(* teardown.                                                               *)
(*                                                                         *)
(* Every critical section of channel->pool->lock is one atomic step; the   *)
(* reads and writes a function makes outside the lock (the tracking        *)
(* semaphore, the error notifiers, the global fatal error) are steps of    *)
(* their own, so threads and the GPU interleave between them.              *)
(***************************************************************************)
EXTENDS Integers, Sequences, FiniteSets, TLC

\* ------------------------------------------------------------- bounds
\* the ring protocol: entries per ring, pushes started after bring-up
RingSize == 3
MaxPushes == 3
\* channel errors: entries per ring, pushes started in the run, channels in
\* error
FaultRingSize == 3
FaultMaxPushes == 1
MaxFaults == 1
\* reclamation: entries per ring, pushes ended after bring-up
ReclaimRingSize == 11
ReclaimMaxPushes == 12
\* copy engine selection: the entries of gpu->ce_caps[]
UVM_COPY_ENGINE_COUNT_MAX == 3
\* posted stores: pushes started after bring-up
DoorbellMaxPushes == 2
\* error print: the ring's entries and the pushes started after the start
ReportRingSize == 3
ReportMaxPushes == 2
\* manager wait: the rings' entries and the pushes started after the start
WaitRingSize == 2
WaitMaxPushes == 1
\* blocked reserve: the ring's entries and the pushes started after the start
LiveRingSize == 3
LiveMaxPushes == 2

\* ---------------------------------------------------------- constants
UVM_CHANNELS_PER_POOL == 2
DefaultMaxToComplete == 8
NULL == -1

NV_OK == "NV_OK"
NV_ERR_RC_ERROR == "NV_ERR_RC_ERROR"
NV_ERR_ECC_ERROR == "NV_ERR_ECC_ERROR"
NV_ERR_NO_MEMORY == "NV_ERR_NO_MEMORY"

UVM_CHANNEL_UPDATE_MODE_COMPLETED == "COMPLETED"
UVM_CHANNEL_UPDATE_MODE_FORCE_ALL == "FORCE_ALL"

\* the threads calling into the channel layer
Threads == {1, 2}
\* channel->pool: pool p holds channels p*PER_POOL+1 .. (p+1)*PER_POOL
PoolOf(c) == (c - 1) \div UVM_CHANNELS_PER_POOL
\* pool->channels_list, in list order
PoolChannel(p, i) == p * UVM_CHANNELS_PER_POOL + i

VARIABLES
    numGpFifoEntries,       \* channel_info.numGpFifoEntries
    cpu_put,                \* channel->cpu_put
    gpu_get,                \* channel->gpu_get
    current_pushes_count,   \* channel->current_pushes_count
    gpfifo_entries,         \* channel->gpfifo_entries[]
    available_push_infos,   \* channel->available_push_infos (list, head first)
    queued_value,           \* channel->tracking_sem.queued_value
    sem_payload,            \* the value the GPU last released on tracking_sem
    errorNotifier,          \* channel_info.errorNotifier->status
    ecc_enabled,            \* gpu->ecc.enabled
    ecc_error_notifier,     \* *gpu->ecc.error_notifier
    global_status,          \* g_uvm_global fatal error (uvm_global_get_status)
    alive,                  \* the channel has not been destroyed
    mgr_state,              \* "Ready", "Destroying", "Destroyed"
    retired,                \* per channel, the tracking values handed to
                            \* uvm_pushbuffer_mark_completed, in call order
    asserts,                \* the UVM_ASSERTs that failed so far
    th,                     \* per thread: position and locals
    push,                   \* per thread: its uvm_push_t
    push_limit,             \* the pushes the callers start at most
    ret,                    \* the API call that returned in the last step
    ce_caps,                \* gpu->ce_caps[]
    usage_count,            \* usage_count[] of channel_manager_pick_copy_engines
    ce_to_use_by_type,      \* manager->ce_to_use_by_type[]
    picker,                 \* channel_manager_pick_copy_engines: its position
    ctor,                   \* uvm_channel_manager_create_common: its position
    resources,              \* what construction allocated and what was freed
    channel_manager_out,    \* *channel_manager_out of the caller
    posted_writes,          \* the platform posts the stores to the device
    store_buffer,           \* stores issued and not yet visible to the device
    visible                 \* the memory as the device sees it

\* manager->all_channels_list: the channels 1..NumChannels in creation order
Channels == DOMAIN numGpFifoEntries
NumChannels == Cardinality(Channels)
\* manager->channel_pools[]: the pools that were created
Pools == 0..((NumChannels \div UVM_CHANNELS_PER_POOL) - 1)

ring == <<numGpFifoEntries, cpu_put, gpu_get, current_pushes_count,
          gpfifo_entries, available_push_infos, queued_value>>
device == <<sem_payload, errorNotifier, ecc_enabled, ecc_error_notifier>>
vars == <<numGpFifoEntries, cpu_put, gpu_get, current_pushes_count,
          gpfifo_entries, available_push_infos, queued_value, sem_payload,
          errorNotifier, ecc_enabled, ecc_error_notifier, global_status,
          alive, mgr_state, retired, asserts, th, push, push_limit, ret,
          ce_caps, usage_count, ce_to_use_by_type, picker, ctor, resources,
          channel_manager_out, posted_writes, store_buffer, visible>>
engines == <<ce_caps, usage_count, ce_to_use_by_type, picker>>
construction == <<ctor, resources, channel_manager_out>>
memory == <<posted_writes, store_buffer, visible>>

\* ------------------------------------------------------------ helpers
Entry(v, s) == [tracking_semaphore_value |-> v, push_info |-> s]
ZeroEntry == Entry(0, NULL)
\* push->channel_tracking_value of a push that was not ended
NoTracking == [channel |-> 0, value |-> 0]
\* what the device reads of a ring entry: the four fields lines 276-279 and
\* 286 write, the pushbuffer region and the hardware entry named by the
\* tracking value of the push they describe
DeviceEntry(entry) ==
    [tracking_semaphore_value |-> entry.tracking_semaphore_value,
     pushbuffer |-> entry.tracking_semaphore_value,
     push_info |-> entry.push_info,
     gpfifo_entry |-> entry.tracking_semaphore_value]
NoPush == [state |-> "none", channel |-> 0, push_info_index |-> NULL]
NoResult == [op |-> "none", ch |-> 0, status |-> NV_OK, count |-> 0]
NoReturn == [t |-> 0, op |-> "none", ch |-> 0, status |-> NV_OK, count |-> 0]
IdleThread ==
    [pc |-> "idle", stack |-> <<>>, op |-> "none", ch |-> 0, idx |-> 0,
     status |-> NV_OK, cstatus |-> NV_OK, cv |-> 0, mode |-> "none",
     acc |-> 0, fatal |-> 0, entry |-> NULL, checked |-> FALSE,
     res |-> NoResult]

RECURSIVE SumOver(_, _)
SumOver(f, S) ==
    IF S = {} THEN 0
    ELSE LET x == CHOOSE y \in S : TRUE IN f[x] + SumOver(f, S \ {x})

\* pushes started so far (claimed or queued), beyond the bring-up pushes
PushesStarted ==
    SumOver(queued_value, Channels) + SumOver(current_pushes_count, Channels)
        - NumChannels

\* pending entries of a ring: (put - get) mod N
Pending(c) == (cpu_put[c] - gpu_get[c] + numGpFifoEntries[c]) % numGpFifoEntries[c]

\* ------------------------------------------- claiming (lines 126-151)
\* variants of is_channel_available(): one that does not count the claims
\* in flight, one that tests the slot of the last claim, one that refuses
\* once the global fatal error is set
is_channel_available_unless_fatal(c) ==
    /\ global_status = NV_OK
    /\ (cpu_put[c] + current_pushes_count[c] + 1) % numGpFifoEntries[c] # gpu_get[c]
is_channel_available_ignoring_claims(c) ==
    (cpu_put[c] + 1) % numGpFifoEntries[c] # gpu_get[c]
is_channel_available_last_claimed(c) ==
    (cpu_put[c] + current_pushes_count[c]) % numGpFifoEntries[c] # gpu_get[c]

\* is_channel_available(): the slot after the claimed ones is not gpu_get
is_channel_available(c) ==
    (cpu_put[c] + current_pushes_count[c] + 1) % numGpFifoEntries[c] # gpu_get[c]

\* a variant of try_claim_channel() that counts the claim before the test
try_claim_channel_counting_first(c) ==
    [claimed |-> is_channel_available(c), count |-> current_pushes_count[c] + 1]

\* try_claim_channel(): whether the claim is made, and the count it leaves
try_claim_channel(c) ==
    IF is_channel_available(c)
    THEN [claimed |-> TRUE, count |-> current_pushes_count[c] + 1]
    ELSE [claimed |-> FALSE, count |-> current_pushes_count[c]]

\* ----------------------------------- progress update (lines 56-114)
\* a variant of the break test that lets one more tracking value through
entry_is_pending_one_late(mode, entry, completed_value) ==
    /\ mode = UVM_CHANNEL_UPDATE_MODE_COMPLETED
    /\ entry.tracking_semaphore_value > completed_value + 1

\* a variant of the break test that stops at no entry
entry_is_pending_never(mode, entry, completed_value) == FALSE

\* the second half of the loop's break test at line 75
entry_is_pending(mode, entry, completed_value) ==
    /\ mode = UVM_CHANNEL_UPDATE_MODE_COMPLETED
    /\ entry.tracking_semaphore_value > completed_value

\* a variant of the advance of gpu_get that stays on the entry
next_gpu_get_staying(c, g) == g

\* gpu_get = (gpu_get + 1) % numGpFifoEntries
next_gpu_get(c, g) == (g + 1) % numGpFifoEntries[c]

\* the loop of lines 72-82: w accumulates gpu_get, completed_count and the
\* entries passed to uvm_pushbuffer_mark_completed / list_add_tail
RECURSIVE progress_loop(_, _, _, _, _)
progress_loop(c, w, max_to_complete, mode, completed_value) ==
    IF /\ w.gpu_get # cpu_put[c]
       /\ w.completed_count < max_to_complete
       /\ ~entry_is_pending(mode, gpfifo_entries[c][w.gpu_get], completed_value)
    THEN progress_loop(c,
            [gpu_get |-> next_gpu_get(c, w.gpu_get),
             completed_count |-> w.completed_count + 1,
             done |-> Append(w.done, gpfifo_entries[c][w.gpu_get])],
            max_to_complete, mode, completed_value)
    ELSE w

\* a variant of lines 88-91 without the wrapped case
pending_gpfifos_unwrapped(c, put, get) == put - get

\* lines 88-91
pending_gpfifos(c, put, get) ==
    IF put >= get THEN put - get ELSE numGpFifoEntries[c] - get + put

\* a variant in which every caller retires one entry at most
MaxToComplete_one(c, mode) == 1

\* max_to_complete and mode of the three callers (lines 100, 108, 113, 530)
MaxToComplete(c, mode) ==
    IF mode = "default" THEN DefaultMaxToComplete ELSE numGpFifoEntries[c]
\* a variant in which destroy_channel() passes the completed-only mode
UpdateMode_completed_only(mode) == UVM_CHANNEL_UPDATE_MODE_COMPLETED
UpdateMode(mode) ==
    IF mode = "force" THEN UVM_CHANNEL_UPDATE_MODE_FORCE_ALL
    ELSE UVM_CHANNEL_UPDATE_MODE_COMPLETED

\* uvm_channel_update_progress_with_max() from the lock on
update_progress_with_max(c, max_to_complete, mode, completed_value) ==
    LET w == progress_loop(c,
                [gpu_get |-> gpu_get[c], completed_count |-> 0, done |-> <<>>],
                max_to_complete, mode, completed_value)
    IN  [gpu_get |-> w.gpu_get,
         completed_count |-> w.completed_count,
         done |-> w.done,
         pending |-> pending_gpfifos(c, cpu_put[c], w.gpu_get)]

\* ------------------------------------------ status (lines 354-372)
\* a variant of line 368 that reads gpu->ecc.enabled alone
uvm_channel_get_status_ecc_enabled(c) ==
    IF errorNotifier[c] = 0 THEN NV_OK
    ELSE IF ecc_enabled THEN NV_ERR_ECC_ERROR
    ELSE NV_ERR_RC_ERROR

uvm_channel_get_status(c) ==
    IF errorNotifier[c] = 0 THEN NV_OK
    ELSE IF ecc_enabled /\ ecc_error_notifier THEN NV_ERR_ECC_ERROR
    ELSE NV_ERR_RC_ERROR

\* uvm_global_set_fatal_error(): the first error set stays
uvm_global_set_fatal_error(status) ==
    IF global_status = NV_OK THEN status ELSE global_status

\* uvm_gpu_tracking_semaphore_update_completed_value(): the value the GPU
\* has released so far
update_completed_value(c) == sem_payload[c]

\* uvm_gpu_tracking_semaphore_is_completed(): all queued values released
tracking_semaphore_is_completed(c) == sem_payload[c] = queued_value[c]

\* ------------------------------------------------ calls and returns
\* A thread's record holds its position (pc), the labels its callers resume
\* at (stack) and the locals of the functions it is in.  Calling a function
\* sets pc to the function's first access to shared state; the computation
\* between two such accesses is local and is done in the step that returns.
Started(op, c) == [IdleThread EXCEPT !.op = op, !.ch = c]

\* enter uvm_channel_update_progress_with_max(c, ...), resuming at label
CallProgress(r, c, mode, label) ==
    [r EXCEPT !.pc = "up_read", !.ch = c, !.mode = mode,
              !.stack = <<label>> \o @]

\* enter uvm_channel_check_errors(c), resuming at label
CallCheckErrors(r, c, label) ==
    [r EXCEPT !.pc = "ce_status", !.ch = c, !.stack = <<label>> \o @]

\* enter uvm_channel_manager_update_progress(), resuming at label:
\* uvm_for_each_channel starts at the head of all_channels_list
CallManagerUpdateProgress(r, label) ==
    CallProgress([r EXCEPT !.idx = 1, !.acc = 0, !.stack = <<label>> \o @],
                 1, "default", "mu_next")

\* uvm_channel_manager_update_progress() called by the API's caller
EnterManagerUpdateProgress(r) ==
    CallProgress([r EXCEPT !.idx = 1, !.acc = 0], 1, "default", "mu_next")

\* enter uvm_channel_manager_check_errors(), resuming at label
CallManagerCheckErrors(r, label) ==
    [r EXCEPT !.pc = "mc_global", !.stack = <<label>> \o @]

\* the outermost function returns to the caller of the API
ApiReturn(r, status, count) ==
    [IdleThread EXCEPT !.res =
        [op |-> r.op, ch |-> r.ch, status |-> status, count |-> count]]

RECURSIVE Return(_, _, _)

\* uvm_channel_reserve(), line 322 -> 325: the first update_progress is done
reserve_progress_done(r) == [r EXCEPT !.pc = "reserve_loop"]

\* a variant of the loop's body without the uvm_channel_update_progress() of
\* line 328
reserve_checked_without_progress(r, status) ==
    [r EXCEPT !.status = status, !.pc = "reserve_loop"]

\* uvm_channel_reserve(), lines 326-328: status = check_errors; update_progress
reserve_checked(r, status) ==
    CallProgress([r EXCEPT !.status = status], r.ch, "default", "reserve_loop")

\* uvm_channel_reserve_type(), lines 170 -> 172
reserve_type_progress_done(r) == [r EXCEPT !.pc = "rt_claim"]

\* a variant of lines 177-182 that goes on to the next channel whatever
\* uvm_channel_check_errors() returned
reserve_type_checked_ignoring_status(r, status) ==
    LET i == IF r.idx < UVM_CHANNELS_PER_POOL THEN r.idx + 1 ELSE 1
    IN  CallProgress([r EXCEPT !.idx = i],
                     PoolChannel(PoolOf(r.ch), i), "default", "rt_claim")

\* uvm_channel_reserve_type(), lines 177-182 and the next turn of the loops:
\* after the last channel of the pool, while (1) starts over at the first
reserve_type_checked(r, status) ==
    IF status # NV_OK THEN Return(r, status, 0)
    ELSE LET i == IF r.idx < UVM_CHANNELS_PER_POOL THEN r.idx + 1 ELSE 1
         IN  CallProgress([r EXCEPT !.idx = i],
                          PoolChannel(PoolOf(r.ch), i), "default", "rt_claim")

\* a variant in which uvm_channel_check_errors() returns the status at once
\* when the channel has no pending entry
first_pending_counted_returning(r, pending_count) ==
    IF pending_count = 0
    THEN Return([r EXCEPT !.cstatus = NV_OK, !.fatal = 0], r.cstatus, 0)
    ELSE [r EXCEPT !.pc = "ce_entry"]

\* uvm_channel_get_first_pending_entry(), lines 339-342
first_pending_counted(r, pending_count) ==
    IF pending_count = 0
    THEN [r EXCEPT !.pc = "ce_set_fatal", !.fatal = 0]
    ELSE [r EXCEPT !.pc = "ce_entry"]

\* uvm_channel_manager_update_progress(), lines 120-123
manager_update_progress_next(r, pending) ==
    IF r.idx < NumChannels
    THEN CallProgress([r EXCEPT !.idx = @ + 1, !.acc = @ + pending],
                      r.idx + 1, "default", "mu_next")
    ELSE Return([r EXCEPT !.idx = 0, !.acc = 0], NV_OK, r.acc + pending)

\* uvm_channel_manager_check_errors(), lines 410-416
manager_check_errors_next(r, status) ==
    IF status # NV_OK THEN Return([r EXCEPT !.idx = 0], status, 0)
    ELSE IF r.idx < NumChannels
    THEN CallCheckErrors([r EXCEPT !.idx = @ + 1], r.idx + 1, "mc_checked")
    ELSE Return([r EXCEPT !.idx = 0], NV_OK, 0)

\* uvm_channel_manager_wait(), lines 194-198
manager_wait_first(r, pending) ==
    IF pending = 0
    THEN [r EXCEPT !.pc = "mc_global"]
    ELSE CallManagerUpdateProgress(r, "mw_loop")

\* uvm_channel_manager_wait(), lines 198-203
manager_wait_loop(r, pending) ==
    IF pending > 0 /\ r.status = NV_OK
    THEN CallManagerCheckErrors(r, "mw_checked")
    ELSE Return(r, r.status, 0)

\* uvm_channel_manager_wait(), line 200 -> 198 (checked records that the
\* call has assigned status at line 200: a history of the call, no local)
manager_wait_checked(r, status) ==
    CallManagerUpdateProgress([r EXCEPT !.status = status, !.checked = TRUE],
                              "mw_loop")

\* destroy_channel(), line 530 -> 533
destroy_drained(r) == [r EXCEPT !.pc = "dc_free"]

\* a function returns status / count: resume the caller at the label on top
\* of the stack, or return from the API call when there is none
Return(r, status, count) ==
    IF r.stack = <<>> THEN ApiReturn(r, status, count)
    ELSE LET label == Head(r.stack)
             r1 == [r EXCEPT !.stack = Tail(@)]
         IN  CASE label = "reserve_loop" -> reserve_progress_done(r1)
               [] label = "reserve_checked" -> reserve_checked(r1, status)
               [] label = "rt_claim" -> reserve_type_progress_done(r1)
               [] label = "rt_checked" -> reserve_type_checked(r1, status)
               [] label = "ce_entry" -> first_pending_counted(r1, count)
               [] label = "mu_next" -> manager_update_progress_next(r1, count)
               [] label = "mc_checked" -> manager_check_errors_next(r1, status)
               [] label = "mw_first" -> manager_wait_first(r1, count)
               [] label = "mw_loop" -> manager_wait_loop(r1, count)
               [] label = "mw_checked" -> manager_wait_checked(r1, status)
               [] label = "dc_free" -> destroy_drained(r1)

\* ------------------------------------------------------------ actions
\* thread t's step leaves it with record r; a step that returns from an API
\* call (r.res is set) shows the returned values in ret
Commit(t, r) ==
    /\ th' = [th EXCEPT ![t] = [r EXCEPT !.res = NoResult]]
    /\ ret' = IF r.res.op = "none" THEN NoReturn
              ELSE [t |-> t, op |-> r.res.op, ch |-> r.res.ch,
                    status |-> r.res.status, count |-> r.res.count]

Ready == mgr_state = "Ready"
Idle(t) == th[t].pc = "idle"
Reserved(c) == [state |-> "reserved", channel |-> c, push_info_index |-> NULL]

\* uvm_channel_reserve(), lines 319-322: the first try_claim_channel
ReserveCall(t, c) ==
    /\ Ready /\ Idle(t) /\ alive[c]
    /\ push[t].state = "none"
    /\ PushesStarted < push_limit
    /\ LET tc == try_claim_channel(c)
       IN  /\ current_pushes_count' = [current_pushes_count EXCEPT ![c] = tc.count]
           /\ IF tc.claimed
              THEN /\ Commit(t, ApiReturn(Started("reserve", c), NV_OK, 0))
                   /\ push' = [push EXCEPT ![t] = Reserved(c)]
              ELSE /\ Commit(t,
                        CallProgress(Started("reserve", c), c, "default", "reserve_loop"))
                   /\ UNCHANGED push
    /\ UNCHANGED <<numGpFifoEntries, cpu_put, gpu_get, gpfifo_entries,
                   available_push_infos, queued_value, device, global_status,
                   alive, mgr_state, retired, asserts, push_limit,
                   engines, construction, memory>>

\* uvm_channel_reserve(), line 325: the loop's test, try_claim_channel first
ReserveLoop(t) ==
    /\ th[t].pc = "reserve_loop"
    /\ LET r == th[t]
           tc == try_claim_channel(r.ch)
       IN  /\ current_pushes_count' = [current_pushes_count EXCEPT ![r.ch] = tc.count]
           /\ IF tc.claimed \/ r.status # NV_OK
              THEN /\ Commit(t, Return(r, r.status, 0))
                   /\ push' = IF tc.claimed /\ r.status = NV_OK
                              THEN [push EXCEPT ![t] = Reserved(r.ch)]
                              ELSE push
              ELSE /\ Commit(t, CallCheckErrors(r, r.ch, "reserve_checked"))
                   /\ UNCHANGED push
    /\ UNCHANGED <<numGpFifoEntries, cpu_put, gpu_get, gpfifo_entries,
                   available_push_infos, queued_value, device, global_status,
                   alive, mgr_state, retired, asserts, push_limit,
                   engines, construction, memory>>

\* a variant of the first scan that starts the polling loop, with its
\* progress updates, as soon as one channel could not be claimed
reserve_type_scan_failed_reclaiming(r) ==
    CallProgress([r EXCEPT !.idx = 1], PoolChannel(PoolOf(r.ch), 1),
                 "default", "rt_claim")

\* uvm_channel_reserve_type(), lines 159-167: the next channel of the first
\* scan, or the first channel of the polling loop
reserve_type_scan_failed(r) ==
    IF r.idx < UVM_CHANNELS_PER_POOL
    THEN [r EXCEPT !.pc = "rt_scan", !.idx = @ + 1,
                   !.ch = PoolChannel(PoolOf(r.ch), r.idx + 1)]
    ELSE CallProgress([r EXCEPT !.idx = 1], PoolChannel(PoolOf(r.ch), 1),
                      "default", "rt_claim")

\* one try_claim_channel of the first scan of uvm_channel_reserve_type()
DoReserveTypeScan(t, r) ==
    /\ LET tc == try_claim_channel(r.ch)
       IN  /\ current_pushes_count' = [current_pushes_count EXCEPT ![r.ch] = tc.count]
           /\ IF tc.claimed
              THEN /\ Commit(t, Return(r, NV_OK, 0))
                   /\ push' = [push EXCEPT ![t] = Reserved(r.ch)]
              ELSE /\ Commit(t, reserve_type_scan_failed(r))
                   /\ UNCHANGED push
    /\ UNCHANGED <<numGpFifoEntries, cpu_put, gpu_get, gpfifo_entries,
                   available_push_infos, queued_value, device, global_status,
                   alive, mgr_state, retired, asserts, push_limit,
                   engines, construction, memory>>

ReserveTypeCall(t, p) ==
    /\ Ready /\ Idle(t)
    /\ push[t].state = "none"
    /\ PushesStarted < push_limit
    /\ DoReserveTypeScan(t, [Started("reserve_type", PoolChannel(p, 1)) EXCEPT !.idx = 1])

ReserveTypeScan(t) ==
    /\ th[t].pc = "rt_scan"
    /\ DoReserveTypeScan(t, th[t])

\* uvm_channel_reserve_type(), lines 172-177: try_claim_channel in the loop
ReserveTypeClaim(t) ==
    /\ th[t].pc = "rt_claim"
    /\ LET r == th[t]
           tc == try_claim_channel(r.ch)
       IN  /\ current_pushes_count' = [current_pushes_count EXCEPT ![r.ch] = tc.count]
           /\ IF tc.claimed
              THEN /\ Commit(t, Return(r, NV_OK, 0))
                   /\ push' = [push EXCEPT ![t] = Reserved(r.ch)]
              ELSE /\ Commit(t, CallCheckErrors(r, r.ch, "rt_checked"))
                   /\ UNCHANGED push
    /\ UNCHANGED <<numGpFifoEntries, cpu_put, gpu_get, gpfifo_entries,
                   available_push_infos, queued_value, device, global_status,
                   alive, mgr_state, retired, asserts, push_limit,
                   engines, construction, memory>>

\* uvm_channel_update_progress_with_max(), line 65: the completed value is
\* read before the lock is taken
DoUpdateCompletedValue(t, r) ==
    /\ Commit(t,
                [r EXCEPT !.pc = "up_walk", !.cv = update_completed_value(r.ch)])
    /\ UNCHANGED <<ring, device, global_status, alive, mgr_state, retired,
                   asserts, push, push_limit,
                   engines, construction, memory>>

UpdateCompletedValue(t) ==
    /\ th[t].pc = "up_read"
    /\ DoUpdateCompletedValue(t, th[t])

\* a variant of line 80 that returns no push info to the list
returned_push_infos_none(done) == <<>>

\* list_add_tail() of line 80: the push infos of the entries passed, in order
returned_push_infos(done) == [i \in 1..Len(done) |-> done[i].push_info]

\* uvm_channel_update_progress_with_max(), lines 67-93: the locked walk
UpdateProgressLocked(t) ==
    /\ th[t].pc = "up_walk"
    /\ LET r == th[t]
           c == r.ch
           u == update_progress_with_max(c, MaxToComplete(c, r.mode),
                                         UpdateMode(r.mode), r.cv)
       IN  /\ gpu_get' = [gpu_get EXCEPT ![c] = u.gpu_get]
           /\ available_push_infos' = [available_push_infos EXCEPT ![c] =
                @ \o returned_push_infos(u.done)]
           /\ retired' = [retired EXCEPT ![c] =
                @ \o [i \in 1..Len(u.done) |-> u.done[i].tracking_semaphore_value]]
           /\ Commit(t,
                Return([r EXCEPT !.cv = 0, !.mode = "none"], NV_OK, u.pending))
    /\ UNCHANGED <<numGpFifoEntries, cpu_put, current_pushes_count,
                   gpfifo_entries, queued_value, device, global_status, alive,
                   mgr_state, asserts, push, push_limit,
                   engines, construction, memory>>

\* uvm_channel_update_progress(channel)
UpdateProgressCall(t, c) ==
    /\ Ready /\ Idle(t) /\ alive[c]
    /\ DoUpdateCompletedValue(t, [Started("update_progress", c) EXCEPT !.mode = "default"])

\* uvm_channel_update_progress_all(channel)
UpdateProgressAllCall(t, c) ==
    /\ Ready /\ Idle(t) /\ alive[c]
    /\ DoUpdateCompletedValue(t, [Started("update_progress_all", c) EXCEPT !.mode = "all"])

\* uvm_channel_manager_update_progress(manager)
ManagerUpdateProgressCall(t) ==
    /\ Ready /\ Idle(t)
    /\ DoUpdateCompletedValue(t,
            EnterManagerUpdateProgress(Started("manager_update_progress", 1)))

\* uvm_channel_manager_wait(manager), line 194
ManagerWaitCall(t) ==
    /\ Ready /\ Idle(t)
    /\ DoUpdateCompletedValue(t,
            CallManagerUpdateProgress(Started("manager_wait", 1), "mw_first"))

\* uvm_channel_check_errors(), lines 384-391: the status is read; a channel
\* in error goes on to look for its first pending entry
DoCheckStatus(t, r) ==
    /\ LET status == uvm_channel_get_status(r.ch)
       IN  Commit(t,
                IF status = NV_OK THEN Return(r, NV_OK, 0)
                ELSE CallProgress([r EXCEPT !.cstatus = status], r.ch, "all", "ce_entry"))
    /\ UNCHANGED <<ring, device, global_status, alive, mgr_state, retired,
                   asserts, push, push_limit,
                   engines, construction, memory>>

CheckStatus(t) ==
    /\ th[t].pc = "ce_status"
    /\ DoCheckStatus(t, th[t])

\* uvm_channel_check_errors(channel)
CheckErrorsCall(t, c) ==
    /\ Ready /\ Idle(t) /\ alive[c]
    /\ DoCheckStatus(t, Started("check_errors", c))

\* uvm_channel_get_first_pending_entry(), lines 344-351: the address of the
\* entry at gpu_get, taken under the lock (entry holds its index, NULL for
\* none; fatal holds the tracking value the entry has at that moment, 0 for
\* none)
FirstPendingEntry(t) ==
    /\ th[t].pc = "ce_entry"
    /\ LET r == th[t]
           c == r.ch
       IN  Commit(t, [r EXCEPT
                !.pc = "ce_set_fatal",
                !.entry = IF gpu_get[c] # cpu_put[c] THEN gpu_get[c] ELSE NULL,
                !.fatal = IF gpu_get[c] # cpu_put[c]
                          THEN gpfifo_entries[c][gpu_get[c]].tracking_semaphore_value
                          ELSE 0])
    /\ UNCHANGED <<ring, device, global_status, alive, mgr_state, retired,
                   asserts, push, push_limit,
                   engines, construction, memory>>

\* uvm_channel_check_errors(), lines 392-395: the entry as it is read
\* through fatal_entry for the error print, after the lock was released
fatal_entry_read(r) ==
    IF r.entry = NULL THEN ZeroEntry ELSE gpfifo_entries[r.ch][r.entry]

\* uvm_channel_check_errors(), lines 392-399: the error print changes no
\* state; the fatal status is set and the status returned
SetFatalError(t) ==
    /\ th[t].pc = "ce_set_fatal"
    /\ LET r == th[t]
       IN  /\ global_status' = uvm_global_set_fatal_error(r.cstatus)
           /\ Commit(t,
                Return([r EXCEPT !.cstatus = NV_OK, !.fatal = 0, !.entry = NULL],
                       r.cstatus, 0))
    /\ UNCHANGED <<ring, device, alive, mgr_state, retired, asserts, push, push_limit,
                   engines, construction, memory>>

\* a variant of lines 404-408 that goes to the channels without the test of
\* the global status
DoManagerCheckGlobal_probing(t, r) ==
    /\ Commit(t, CallCheckErrors([r EXCEPT !.idx = 1], 1, "mc_checked"))
    /\ UNCHANGED <<ring, device, global_status, alive, mgr_state, retired,
                   asserts, push, push_limit,
                   engines, construction, memory>>

\* uvm_channel_manager_check_errors(), lines 404-408: the global status
DoManagerCheckGlobal(t, r) ==
    /\ LET status == global_status
       IN  Commit(t,
                IF status # NV_OK THEN Return(r, status, 0)
                ELSE CallCheckErrors([r EXCEPT !.idx = 1], 1, "mc_checked"))
    /\ UNCHANGED <<ring, device, global_status, alive, mgr_state, retired,
                   asserts, push, push_limit,
                   engines, construction, memory>>

ManagerCheckGlobal(t) ==
    /\ th[t].pc = "mc_global"
    /\ DoManagerCheckGlobal(t, th[t])

\* uvm_channel_manager_check_errors(manager)
ManagerCheckErrorsCall(t) ==
    /\ Ready /\ Idle(t)
    /\ DoManagerCheckGlobal(t, Started("manager_check_errors", 1))

\* a variant of channel_get_available_push_info_index() without the list_del
channel_get_available_push_info_index_keeping(c) ==
    [index |-> Head(available_push_infos[c]), rest |-> available_push_infos[c]]

\* channel_get_available_push_info_index(), lines 212-219: the first push
\* info of the list is taken off it and its index returned
channel_get_available_push_info_index(c) ==
    [index |-> Head(available_push_infos[c]), rest |-> Tail(available_push_infos[c])]

\* uvm_channel_begin_push(), lines 232-240.  uvm_pushbuffer_begin_push() may
\* fail; channel_get_available_push_info_index() takes the head of the list
BeginPush(t) ==
    /\ Ready /\ Idle(t)
    /\ push[t].state = "reserved"
    /\ LET c == push[t].channel
       IN  \E pushbuffer_ok \in BOOLEAN :
             IF ~pushbuffer_ok
             THEN /\ Commit(t,
                        ApiReturn(Started("begin_push", c), NV_ERR_NO_MEMORY, 0))
                  /\ UNCHANGED <<available_push_infos, asserts, push>>
             ELSE IF available_push_infos[c] = <<>>
             THEN \* UVM_ASSERT(push_info != NULL) fails, list_del(NULL) follows
                  /\ asserts' = asserts \cup {"push_info != NULL"}
                  /\ Commit(t, [Started("begin_push", c) EXCEPT !.pc = "crashed"])
                  /\ UNCHANGED <<available_push_infos, push>>
             ELSE /\ available_push_infos' = [available_push_infos EXCEPT ![c] =
                        channel_get_available_push_info_index(c).rest]
                  /\ push' = [push EXCEPT ![t] =
                        [state |-> "begun", channel |-> c,
                         push_info_index |->
                            channel_get_available_push_info_index(c).index]]
                  /\ Commit(t,
                        ApiReturn(Started("begin_push", c), NV_OK, 0))
                  /\ UNCHANGED asserts
    /\ UNCHANGED <<numGpFifoEntries, cpu_put, gpu_get, current_pushes_count,
                   gpfifo_entries, queued_value, device, global_status, alive,
                   mgr_state, retired, push_limit,
                   engines, construction, memory>>

\* a variant of line 284 that leaves the count as it is
decrement_pushes_count_keeping(n) == n

\* the count after --channel->current_pushes_count.  The count is an NvU32:
\* from 0 it wraps to 2^32 - 1, which the NvU32 sum of is_channel_available()
\* treats as -1, the value kept here
decrement_pushes_count(n) == n - 1

\* a variant of line 263 that takes the queued value without the increment
next_tracking_value_reusing(c) == queued_value[c]

\* new_tracking_value = ++channel->tracking_sem.queued_value (line 263)
next_tracking_value(c) == queued_value[c] + 1

\* the stores a CPU issued that the device may not see yet, in program order,
\* with the barriers between them
Fence == [kind |-> "fence", addr |-> <<>>, val |-> 0]
Store(addr, val) == [kind |-> "store", addr |-> addr, val |-> val]

\* a variant of the stores of uvm_channel_end_push() without the mb() of
\* line 292
end_push_stores_without_mb(t, c, put, new_cpu_put, value, slot) ==
    <<Store(<<"tracking_semaphore_value", c, put>>, value),
      Store(<<"pushbuffer", c, put>>, value),
      Store(<<"push_info", c, put>>, slot),
      Store(<<"gpfifo_entry", c, put>>, value),
      Store(<<"gp_put", c>>, new_cpu_put),
      Fence,
      Store(<<"channel_tracking_value", t, c>>, value)>>

\* The stores of uvm_channel_end_push() that the device or the caller
\* observes: the entry's tracking value (line 276), pushbuffer region (lines
\* 277-278) and push info (line 279), the hardware GPFIFO entry (line 286),
\* mb() (line 292), GPPUT (line 295), the unlock and wmb() (lines 303-309)
\* and push->channel_tracking_value (line 311)
end_push_stores(t, c, put, new_cpu_put, value, slot) ==
    <<Store(<<"tracking_semaphore_value", c, put>>, value),
      Store(<<"pushbuffer", c, put>>, value),
      Store(<<"push_info", c, put>>, slot),
      Store(<<"gpfifo_entry", c, put>>, value),
      Fence,
      Store(<<"gp_put", c>>, new_cpu_put),
      Fence,
      Store(<<"channel_tracking_value", t, c>>, value)>>

\* uvm_channel_end_push(), lines 261-311, all under the lock.  On a platform
\* that posts its stores they are queued for the device in program order;
\* otherwise the device reads the memory of the CPU
EndPush(t) ==
    /\ Ready /\ Idle(t)
    /\ push[t].state = "begun"
    /\ LET c == push[t].channel
           new_tracking_value == next_tracking_value(c)
           put == cpu_put[c]
           new_cpu_put == (put + 1) % numGpFifoEntries[c]
       IN  /\ queued_value' = [queued_value EXCEPT ![c] = new_tracking_value]
           /\ gpfifo_entries' = [gpfifo_entries EXCEPT ![c][put] =
                Entry(new_tracking_value, push[t].push_info_index)]
           /\ asserts' = IF current_pushes_count[c] > 0 THEN asserts
                         ELSE asserts \cup {"current_pushes_count > 0"}
           /\ current_pushes_count' = [current_pushes_count EXCEPT ![c] =
                decrement_pushes_count(@)]
           /\ cpu_put' = [cpu_put EXCEPT ![c] = new_cpu_put]
           /\ push' = [push EXCEPT ![t] = NoPush]
           /\ store_buffer' =
                IF posted_writes
                THEN store_buffer \o
                        end_push_stores(t, c, put, new_cpu_put,
                                        new_tracking_value,
                                        push[t].push_info_index)
                ELSE store_buffer
           /\ Commit(t,
                ApiReturn(Started("end_push", c), NV_OK, new_tracking_value))
    /\ UNCHANGED <<numGpFifoEntries, gpu_get, available_push_infos, device,
                   global_status, alive, mgr_state, retired, push_limit,
                   engines, construction, posted_writes, visible>>

\* destroy_channel(), lines 521-530: the idle assertion, then the forced
\* update of all remaining entries
DoDestroyCheck(t, r) ==
    LET c == r.ch
    IN  IF queued_value[c] > 0
        THEN /\ asserts' =
                  IF /\ global_status = NV_OK
                     /\ uvm_channel_get_status(c) = NV_OK
                     /\ ~tracking_semaphore_is_completed(c)
                  THEN asserts \cup {"tracking_semaphore_is_completed"}
                  ELSE asserts
             /\ Commit(t, CallProgress(r, c, "force", "dc_free"))
        ELSE /\ Commit(t, [r EXCEPT !.pc = "dc_free"])
             /\ UNCHANGED asserts

\* uvm_channel_manager_destroy(manager): its caller has stopped every user of
\* the manager; the first channel of all_channels_list is destroyed first
ManagerDestroyCall(t) ==
    /\ Ready
    /\ \A u \in Threads : Idle(u) /\ push[u].state = "none"
    /\ mgr_state' = "Destroying"
    /\ DoDestroyCheck(t, [Started("manager_destroy", 1) EXCEPT !.idx = 1])
    /\ UNCHANGED <<ring, device, global_status, alive, retired, push, push_limit,
                   engines, construction, memory>>

DestroyCheck(t) ==
    /\ th[t].pc = "dc_check"
    /\ DoDestroyCheck(t, th[t])
    /\ UNCHANGED <<ring, device, global_status, alive, mgr_state, retired, push, push_limit,
                   engines, construction, memory>>

\* destroy_channel(), lines 533-549, and the next channel of the list
DestroyFree(t) ==
    /\ th[t].pc = "dc_free"
    /\ LET r == th[t]
       IN  /\ alive' = [alive EXCEPT ![r.ch] = FALSE]
           /\ IF r.idx < NumChannels
              THEN /\ Commit(t,
                        [r EXCEPT !.pc = "dc_check", !.idx = @ + 1, !.ch = r.idx + 1])
                   /\ UNCHANGED mgr_state
              ELSE /\ Commit(t, ApiReturn(r, NV_OK, 0))
                   /\ mgr_state' = "Destroyed"
    /\ UNCHANGED <<ring, device, global_status, retired, asserts, push, push_limit,
                   engines, construction, memory>>

\* ---------------------------------------------------------- the GPU
\* GPPUT as the device reads it
device_gp_put(c) == IF posted_writes THEN visible.gp_put[c] ELSE cpu_put[c]

\* the ring index of the entry the GPU runs next: the pushes complete in
\* ring order from index 0
device_get(c) == sem_payload[c] % numGpFifoEntries[c]

\* the memory of the device after a store reached it
apply_store(vis, s) ==
    LET field == s.addr[1]
    IN  IF field = "gp_put"
        THEN [vis EXCEPT !.gp_put[s.addr[2]] = s.val]
        ELSE IF field = "channel_tracking_value"
        THEN [vis EXCEPT !.channel_tracking_value[s.addr[2]] =
                    [channel |-> s.addr[3], value |-> s.val]]
        ELSE [vis EXCEPT !.entries[s.addr[2]][s.addr[3]][field] = s.val]

\* the buffer without its k-th item and without barriers left at its head
RECURSIVE drop_fences(_)
drop_fences(b) ==
    IF b # <<>> /\ Head(b).kind = "fence" THEN drop_fences(Tail(b)) ELSE b
without_store(b, k) ==
    drop_fences(SubSeq(b, 1, k - 1) \o SubSeq(b, k + 1, Len(b)))

\* A posted store reaches the device.  Stores reach it in any order, but
\* none passes a barrier issued before it or an earlier store to its address.
StoreCommit ==
    /\ posted_writes
    /\ \E k \in 1..Len(store_buffer) :
        /\ store_buffer[k].kind = "store"
        /\ \A j \in 1..(k - 1) :
            /\ store_buffer[j].kind # "fence"
            /\ store_buffer[j].addr # store_buffer[k].addr
        /\ visible' = apply_store(visible, store_buffer[k])
        /\ store_buffer' = without_store(store_buffer, k)
    /\ ret' = NoReturn
    /\ UNCHANGED <<ring, device, global_status, alive, mgr_state, retired,
                   asserts, th, push, push_limit, engines, construction,
                   posted_writes>>

\* the GPU runs the semaphore release of the next queued push, once it has
\* read a GPPUT that covers the entry
GpuComplete(c) ==
    /\ alive[c]
    /\ sem_payload[c] < queued_value[c]
    /\ device_gp_put(c) # device_get(c)
    /\ sem_payload' = [sem_payload EXCEPT ![c] = @ + 1]
    /\ UNCHANGED <<ring, errorNotifier, ecc_enabled, ecc_error_notifier,
                   global_status, alive, mgr_state, retired, asserts, th, push,
                   push_limit, engines, construction, memory>>
    /\ ret' = NoReturn

\* the channel's error notifier is written
GpuFault(c) ==
    /\ alive[c]
    /\ errorNotifier[c] = 0
    /\ Cardinality({d \in Channels : errorNotifier[d] # 0}) < MaxFaults
    /\ errorNotifier' = [errorNotifier EXCEPT ![c] = 1]
    /\ UNCHANGED <<ring, sem_payload, ecc_enabled, ecc_error_notifier,
                   global_status, alive, mgr_state, retired, asserts, th, push,
                   push_limit, engines, construction, memory>>
    /\ ret' = NoReturn

\* the GPU's ECC error notifier is written.  It is read only by
\* uvm_channel_get_status(), with ECC enabled and for a channel whose error
\* notifier is set, so a write with ECC disabled changes nothing and a write
\* before the first channel error is the same as one right after it
GpuEccError ==
    /\ mgr_state # "Destroyed"
    /\ ecc_enabled
    /\ \E c \in Channels : errorNotifier[c] # 0
    /\ ~ecc_error_notifier
    /\ ecc_error_notifier' = TRUE
    /\ UNCHANGED <<ring, sem_payload, errorNotifier, ecc_enabled,
                   global_status, alive, mgr_state, retired, asserts, th, push,
                   push_limit, engines, construction, memory>>
    /\ ret' = NoReturn

\* ------------------------------- copy engine selection (lines 623-799)
\* the channel types in the order of the enumeration (lines 886-891);
\* UVM_CHANNEL_TYPE_ANY is the last value below UVM_CHANNEL_TYPE_COUNT
UVM_CHANNEL_TYPE_CPU_TO_GPU == "CPU_TO_GPU"
UVM_CHANNEL_TYPE_GPU_TO_CPU == "GPU_TO_CPU"
UVM_CHANNEL_TYPE_GPU_INTERNAL == "GPU_INTERNAL"
UVM_CHANNEL_TYPE_MEMOPS == "MEMOPS"
UVM_CHANNEL_TYPE_GPU_TO_GPU == "GPU_TO_GPU"
UVM_CHANNEL_TYPE_ANY == "ANY"
TypeOrder ==
    <<UVM_CHANNEL_TYPE_CPU_TO_GPU, UVM_CHANNEL_TYPE_GPU_TO_CPU,
      UVM_CHANNEL_TYPE_GPU_INTERNAL, UVM_CHANNEL_TYPE_MEMOPS,
      UVM_CHANNEL_TYPE_GPU_TO_GPU, UVM_CHANNEL_TYPE_ANY>>
UVM_CHANNEL_TYPE_COUNT == Len(TypeOrder)
AllTypes == {TypeOrder[i] : i \in 1..UVM_CHANNEL_TYPE_COUNT}
ChannelTypes == AllTypes \ {UVM_CHANNEL_TYPE_ANY}

\* the order in which channel_manager_pick_copy_engines() picks (lines 779-785)
PickOrder ==
    <<UVM_CHANNEL_TYPE_CPU_TO_GPU, UVM_CHANNEL_TYPE_GPU_TO_CPU,
      UVM_CHANNEL_TYPE_GPU_INTERNAL, UVM_CHANNEL_TYPE_GPU_TO_GPU,
      UVM_CHANNEL_TYPE_MEMOPS>>

NV_ERR_NOT_SUPPORTED == "NV_ERR_NOT_SUPPORTED"

\* the indices of gpu->ce_caps[] and usage_count[]
CopyEngines == 0..(UVM_COPY_ENGINE_COUNT_MAX - 1)

\* an NvBool in an arithmetic expression
BoolInt(b) == IF b THEN 1 ELSE 0

\* hweight32(): the number of bits set
RECURSIVE hweight32(_)
hweight32(mask) == IF mask = 0 THEN 0 ELSE (mask % 2) + hweight32(mask \div 2)

\* ce_usable_for_channel_type(), lines 623-641
ce_usable_for_channel_type(type, cap) ==
    IF ~cap.supported \/ cap.grce THEN FALSE
    ELSE CASE type \in {UVM_CHANNEL_TYPE_CPU_TO_GPU, UVM_CHANNEL_TYPE_GPU_TO_CPU}
                -> cap.sysmem
           [] type \in {UVM_CHANNEL_TYPE_GPU_INTERNAL, UVM_CHANNEL_TYPE_MEMOPS}
                -> TRUE
           [] type = UVM_CHANNEL_TYPE_GPU_TO_GPU -> cap.p2p
           [] OTHER -> FALSE

\* variants of the default ordering: one that does not look at the usage
\* count, one that prefers the higher index
default_order_ignoring_usage(caps, ce_index1, ce_index2, usage) ==
    IF caps[ce_index1].shared # caps[ce_index2].shared
    THEN BoolInt(caps[ce_index1].shared) - BoolInt(caps[ce_index2].shared)
    ELSE ce_index1 - ce_index2
default_order_highest_index(caps, ce_index1, ce_index2, usage) ==
    IF usage[ce_index1] # usage[ce_index2]
    THEN usage[ce_index1] - usage[ce_index2]
    ELSE IF caps[ce_index1].shared # caps[ce_index2].shared
    THEN BoolInt(caps[ce_index1].shared) - BoolInt(caps[ce_index2].shared)
    ELSE ce_index2 - ce_index1

\* compare_ce_for_channel_type(), lines 730-739: the ordering every type ends
\* with.  The differences are of NvU32 values below 2^31 returned as int, so
\* they are the arithmetic differences
default_order(caps, ce_index1, ce_index2, usage) ==
    IF usage[ce_index1] # usage[ce_index2]
    THEN usage[ce_index1] - usage[ce_index2]
    ELSE IF caps[ce_index1].shared # caps[ce_index2].shared
    THEN BoolInt(caps[ce_index1].shared) - BoolInt(caps[ce_index2].shared)
    ELSE ce_index1 - ce_index2

\* compare_ce_for_channel_type(), lines 644-740: negative if the first CE
\* should be considered better than the second
compare_ce_for_channel_type(caps, type, ce_index1, ce_index2, usage) ==
    LET cap1 == caps[ce_index1]
        cap2 == caps[ce_index2]
        pce_diff == hweight32(cap2.cePceMask) - hweight32(cap1.cePceMask)
        default == default_order(caps, ce_index1, ce_index2, usage)
    IN  CASE type = UVM_CHANNEL_TYPE_CPU_TO_GPU ->
                IF cap1.sysmemRead # cap2.sysmemRead
                THEN BoolInt(cap2.sysmemRead) - BoolInt(cap1.sysmemRead)
                ELSE IF cap1.nvlinkP2p # cap2.nvlinkP2p
                THEN BoolInt(cap1.nvlinkP2p) - BoolInt(cap2.nvlinkP2p)
                ELSE default
          [] type = UVM_CHANNEL_TYPE_GPU_TO_CPU ->
                IF cap1.sysmemWrite # cap2.sysmemWrite
                THEN BoolInt(cap2.sysmemWrite) - BoolInt(cap1.sysmemWrite)
                ELSE IF cap1.nvlinkP2p # cap2.nvlinkP2p
                THEN BoolInt(cap1.nvlinkP2p) - BoolInt(cap2.nvlinkP2p)
                ELSE default
          [] type = UVM_CHANNEL_TYPE_GPU_TO_GPU ->
                IF cap1.nvlinkP2p # cap2.nvlinkP2p
                THEN BoolInt(cap2.nvlinkP2p) - BoolInt(cap1.nvlinkP2p)
                ELSE IF cap1.nvlinkP2p /\ pce_diff # 0
                THEN pce_diff
                ELSE default
          [] type = UVM_CHANNEL_TYPE_GPU_INTERNAL ->
                IF pce_diff # 0
                THEN pce_diff
                ELSE IF cap1.nvlinkP2p # cap2.nvlinkP2p
                THEN BoolInt(cap1.nvlinkP2p) - BoolInt(cap2.nvlinkP2p)
                ELSE default
          [] type = UVM_CHANNEL_TYPE_MEMOPS -> default
          [] OTHER -> 0

\* the loop of pick_ce_for_channel_type(), lines 748-760, from index i on
RECURSIVE pick_loop(_, _, _, _, _)
pick_loop(caps, type, usage, i, best) ==
    IF i = UVM_COPY_ENGINE_COUNT_MAX THEN best
    ELSE IF ~ce_usable_for_channel_type(type, caps[i])
    THEN pick_loop(caps, type, usage, i + 1, best)
    ELSE IF best = UVM_COPY_ENGINE_COUNT_MAX
    THEN pick_loop(caps, type, usage, i + 1, i)
    ELSE IF compare_ce_for_channel_type(caps, type, i, best, usage) < 0
    THEN pick_loop(caps, type, usage, i + 1, i)
    ELSE pick_loop(caps, type, usage, i + 1, best)

\* a variant of the pick that takes the first usable CE
best_ce_first_usable(caps, type, usage) ==
    IF \E i \in CopyEngines : ce_usable_for_channel_type(type, caps[i])
    THEN CHOOSE i \in CopyEngines :
            /\ ce_usable_for_channel_type(type, caps[i])
            /\ \A j \in CopyEngines :
                    ce_usable_for_channel_type(type, caps[j]) => i <= j
    ELSE UVM_COPY_ENGINE_COUNT_MAX

\* best_ce of pick_ce_for_channel_type() after its loop:
\* UVM_COPY_ENGINE_COUNT_MAX when no CE is usable for the type
best_ce(caps, type, usage) ==
    pick_loop(caps, type, usage, 0, UVM_COPY_ENGINE_COUNT_MAX)

\* ++usage_count[best_ce] (line 762) with best_ce inside the array
increment_usage(usage, best) == [usage EXCEPT ![best] = @ + 1]

\* With no usable CE line 762 increments usage_count[UVM_COPY_ENGINE_COUNT_MAX],
\* the word after the end of the array in the frame of
\* channel_manager_pick_copy_engines(): the behaviour is undefined.  Either
\* that word is one the function does not use again and the function goes
\* on, or it is part of what the function returns through (the stack
\* protector's canary, a saved register, the return address) and the
\* function does not return to its caller.
StrayIncrementOutcomes == {"unused word", "frame"}

\* channel_manager_pick_copy_engines(), lines 772-775
PickCopyEnginesCall ==
    /\ ctor.pc = "pick_copy_engines"
    /\ picker.pc = "idle"
    /\ usage_count' = [i \in CopyEngines |-> 0]
    /\ ce_to_use_by_type' = [type \in AllTypes |-> UVM_COPY_ENGINE_COUNT_MAX]
    /\ picker' = [pc |-> "pick", i |-> 1, status |-> NV_OK]
    /\ ret' = NoReturn
    /\ UNCHANGED <<ring, device, global_status, alive, mgr_state, retired,
                   asserts, th, push, push_limit, ce_caps, construction, memory>>

\* one pick_ce_for_channel_type() of lines 779-785
PickCe ==
    /\ picker.pc = "pick"
    /\ LET type == PickOrder[picker.i]
           best == best_ce(ce_caps, type, usage_count)
           next == IF picker.i < Len(PickOrder)
                   THEN [picker EXCEPT !.i = @ + 1]
                   ELSE [picker EXCEPT !.pc = "check", !.i = 0]
       IN  /\ ce_to_use_by_type' = [ce_to_use_by_type EXCEPT ![type] = best]
           /\ IF best # UVM_COPY_ENGINE_COUNT_MAX
              THEN /\ usage_count' = increment_usage(usage_count, best)
                   /\ picker' = next
              ELSE /\ UNCHANGED usage_count
                   /\ \E outcome \in StrayIncrementOutcomes :
                        picker' = IF outcome = "frame"
                                  THEN [picker EXCEPT !.pc = "crashed"]
                                  ELSE next
    /\ ret' = NoReturn
    /\ UNCHANGED <<ring, device, global_status, alive, mgr_state, retired,
                   asserts, th, push, push_limit, ce_caps, construction, memory>>

\* channel_manager_pick_copy_engines(), lines 788-798
PickCheck ==
    /\ picker.pc = "check"
    /\ picker' = [picker EXCEPT
            !.pc = "returned",
            !.status = IF \E type \in ChannelTypes :
                            ce_to_use_by_type[type] = UVM_COPY_ENGINE_COUNT_MAX
                       THEN NV_ERR_NOT_SUPPORTED
                       ELSE NV_OK]
    /\ ret' = NoReturn
    /\ UNCHANGED <<ring, device, global_status, alive, mgr_state, retired,
                   asserts, th, push, push_limit, ce_caps, usage_count,
                   ce_to_use_by_type, construction, memory>>

\* the picks of channel_manager_pick_copy_engines() from the k-th on, for a
\* table of capabilities on which every pick finds a CE
RECURSIVE picks(_, _, _)
picks(caps, k, w) ==
    IF k > Len(PickOrder) THEN w
    ELSE LET best == best_ce(caps, PickOrder[k], w.usage_count)
         IN  picks(caps, k + 1,
                [usage_count |-> increment_usage(w.usage_count, best),
                 ce_to_use_by_type |->
                    [w.ce_to_use_by_type EXCEPT ![PickOrder[k]] = best]])

\* ------------------------------ manager construction (lines 436-856)
NV_ERR_GENERIC == "NV_ERR_GENERIC"
\* the statuses a failing callee returns
CalleeErrors == {NV_ERR_NO_MEMORY, NV_ERR_GENERIC}

\* the per-channel state but the ring
channel_state == <<sem_payload, errorNotifier, retired, alive>>

\* the caller of uvm_channel_manager_create_common()
Creator == 1
CreateReturned(status) ==
    [t |-> Creator, op |-> "manager_create", ch |-> 0, status |-> status,
     count |-> 0]

\* the next index of the loop of lines 829-837 that is not UVM_CHANNEL_TYPE_ANY
NextType(k) ==
    LET later == {j \in (k + 1)..UVM_CHANNEL_TYPE_COUNT :
                    TypeOrder[j] # UVM_CHANNEL_TYPE_ANY}
    IN  IF later = {} THEN UVM_CHANNEL_TYPE_COUNT + 1
        ELSE CHOOSE j \in later : \A l \in later : j <= l

\* the steps of create_channel() that can fail (lines 447, 458, 466, 478,
\* 485, 491, 501) with the statuses they fail with
CreateChannelFailures(with_procfs) ==
    {[at |-> "kvmalloc channel", status |-> NV_ERR_NO_MEMORY],
     [at |-> "kvmalloc gpfifo_entries", status |-> NV_ERR_NO_MEMORY],
     [at |-> "kvmalloc push_infos", status |-> NV_ERR_NO_MEMORY]}
    \cup {[at |-> step, status |-> status] :
            step \in {"tracking_semaphore_alloc", "ChannelAllocate",
                      "CopyEngineAlloc"}
                     \cup (IF with_procfs THEN {"channel_create_procfs"} ELSE {}),
            status \in CalleeErrors}

\* uvm_channel_manager_create_common(), lines 807-813
CreateCall ==
    /\ ctor.pc = "idle"
    /\ \/ /\ ctor' = [ctor EXCEPT !.pc = "returned", !.status = NV_ERR_NO_MEMORY]
          /\ ret' = CreateReturned(NV_ERR_NO_MEMORY)
          /\ mgr_state' = "Destroyed"
          /\ UNCHANGED resources
       \/ \E with_procfs \in BOOLEAN :
            /\ ctor' = [ctor EXCEPT !.pc = "pushbuffer",
                                    !.with_procfs = with_procfs]
            /\ resources' = [resources EXCEPT !.manager = "allocated"]
            /\ ret' = NoReturn
            /\ UNCHANGED mgr_state
    /\ UNCHANGED <<ring, device, global_status, alive, retired, asserts, th,
                   push, push_limit, engines, channel_manager_out, memory>>

\* lines 815-817: uvm_pushbuffer_create_common()
CreatePushbuffer ==
    /\ ctor.pc = "pushbuffer"
    /\ \/ /\ resources' = [resources EXCEPT !.pushbuffer = "created"]
          /\ ctor' = [ctor EXCEPT !.pc = IF ctor.with_procfs THEN "procfs_dirs"
                                         ELSE "pick_copy_engines"]
       \/ \E status \in CalleeErrors :
            /\ ctor' = [ctor EXCEPT !.pc = "error", !.status = status]
            /\ UNCHANGED resources
    /\ ret' = NoReturn
    /\ UNCHANGED <<ring, device, global_status, alive, mgr_state, retired,
                   asserts, th, push, push_limit, engines, channel_manager_out,
                   memory>>

\* lines 819-823: manager_create_procfs_dirs()
CreateProcfsDirs ==
    /\ ctor.pc = "procfs_dirs"
    /\ \/ ctor' = [ctor EXCEPT !.pc = "pick_copy_engines"]
       \/ \E status \in CalleeErrors :
            ctor' = [ctor EXCEPT !.pc = "error", !.status = status]
    /\ ret' = NoReturn
    /\ UNCHANGED <<ring, device, global_status, alive, mgr_state, retired,
                   asserts, th, push, push_limit, engines, resources,
                   channel_manager_out, memory>>

\* lines 825-827: channel_manager_pick_copy_engines() has returned
CreatePicked ==
    /\ ctor.pc = "pick_copy_engines"
    /\ picker.pc = "returned"
    /\ ctor' = IF picker.status = NV_OK
               THEN [ctor EXCEPT !.pc = "pools", !.type = NextType(0), !.i = 0]
               ELSE [ctor EXCEPT !.pc = "error", !.status = picker.status]
    /\ ret' = NoReturn
    /\ UNCHANGED <<ring, device, global_status, alive, mgr_state, retired,
                   asserts, th, push, push_limit, engines, resources,
                   channel_manager_out, memory>>

\* create_channel() succeeds (lines 447-506) and create_channel_pool() lists
\* the channel (lines 572-573): a ring of n zeroed entries, every push info
\* on the free list in index order
ChannelCreated(c, n) ==
    /\ numGpFifoEntries' = Append(numGpFifoEntries, n)
    /\ cpu_put' = Append(cpu_put, 0)
    /\ gpu_get' = Append(gpu_get, 0)
    /\ current_pushes_count' = Append(current_pushes_count, 0)
    /\ gpfifo_entries' = Append(gpfifo_entries, [i \in 0..(n - 1) |-> ZeroEntry])
    /\ available_push_infos' =
            Append(available_push_infos, [j \in 1..n |-> j - 1])
    /\ queued_value' = Append(queued_value, 0)
    /\ sem_payload' = Append(sem_payload, 0)
    /\ errorNotifier' = Append(errorNotifier, 0)
    /\ retired' = Append(retired, <<>>)
    /\ alive' = Append(alive, TRUE)
    /\ visible' = [visible EXCEPT
            !.gp_put = Append(@, 0),
            !.entries = Append(@, [i \in 0..(n - 1) |-> DeviceEntry(ZeroEntry)])]
    /\ resources' = [resources EXCEPT
            !.channels[c] = "allocated",
            !.all_channels_list = Append(@, c)]

\* one turn of the loop of create_channel_pool() (lines 568-574) in the loop
\* of lines 829-837: create_channel() with the destroy_channel() of its
\* error path
CreateChannel ==
    /\ ctor.pc = "pools"
    /\ LET c == PoolChannel(ctor.type - 1, ctor.i + 1)
           type == TypeOrder[ctor.type]
       IN  /\ asserts' = IF ce_to_use_by_type[type] < UVM_COPY_ENGINE_COUNT_MAX
                         THEN asserts
                         ELSE asserts \cup {"ce_index < UVM_COPY_ENGINE_COUNT_MAX"}
           /\ \/ /\ ChannelCreated(c, RingSize)
                 /\ ctor' =
                        IF ctor.i + 1 < UVM_CHANNELS_PER_POOL
                        THEN [ctor EXCEPT !.i = @ + 1]
                        ELSE IF NextType(ctor.type) <= UVM_CHANNEL_TYPE_COUNT
                        THEN [ctor EXCEPT !.type = NextType(ctor.type), !.i = 0]
                        ELSE [ctor EXCEPT !.pc = "init_channels", !.type = 0,
                                          !.i = 0, !.chan = 1]
              \/ \E failure \in CreateChannelFailures(ctor.with_procfs) :
                    /\ ctor' = [ctor EXCEPT !.pc = "error",
                                            !.status = failure.status]
                    /\ resources' =
                        IF failure.at = "kvmalloc channel" THEN resources
                        ELSE [resources EXCEPT !.channels[c] = "freed",
                                               !.destroy_calls[c] = @ + 1]
                    /\ UNCHANGED <<ring, channel_state, visible>>
    /\ ret' = NoReturn
    /\ UNCHANGED <<ecc_enabled, ecc_error_notifier, global_status, mgr_state,
                   th, push, push_limit, engines, channel_manager_out,
                   posted_writes, store_buffer>>

\* the outcomes of one turn of the loop of init_channels() (lines 605-618)
InitChannelOutcomes == {"pushed", "begin failed", "wait failed"}

\* One turn of the loop of init_channels(): the push is begun on the channel,
\* ended and waited for.  The begin fails before it claims, or the wait fails
\* on the channel's error, which it sets as the global fatal error.
InitChannel ==
    /\ ctor.pc = "init_channels"
    /\ \E outcome \in InitChannelOutcomes :
        LET c == resources.all_channels_list[ctor.chan]
            pushed == outcome # "begin failed"
            failed == outcome # "pushed"
            status == IF outcome = "pushed" THEN NV_OK
                      ELSE IF outcome = "wait failed" THEN NV_ERR_RC_ERROR
                      ELSE NV_ERR_NO_MEMORY
        IN  /\ IF pushed
               THEN /\ queued_value' = [queued_value EXCEPT ![c] = @ + 1]
                    /\ gpfifo_entries' = [gpfifo_entries EXCEPT
                            ![c][cpu_put[c]] =
                                Entry(queued_value[c] + 1,
                                      Head(available_push_infos[c]))]
                    /\ available_push_infos' = [available_push_infos EXCEPT
                            ![c] = Tail(@)]
                    /\ cpu_put' = [cpu_put EXCEPT
                            ![c] = (@ + 1) % numGpFifoEntries[c]]
                    /\ visible' = [visible EXCEPT
                            !.gp_put[c] = (cpu_put[c] + 1) % numGpFifoEntries[c],
                            !.entries[c][cpu_put[c]] =
                                DeviceEntry(Entry(queued_value[c] + 1,
                                            Head(available_push_infos[c])))]
               ELSE UNCHANGED <<queued_value, gpfifo_entries,
                                available_push_infos, cpu_put, visible>>
            /\ sem_payload' = IF outcome = "pushed"
                              THEN [sem_payload EXCEPT ![c] = @ + 1]
                              ELSE sem_payload
            /\ errorNotifier' = IF outcome = "wait failed"
                                THEN [errorNotifier EXCEPT ![c] = 1]
                                ELSE errorNotifier
            /\ global_status' = IF outcome = "wait failed"
                                THEN uvm_global_set_fatal_error(status)
                                ELSE global_status
            /\ ctor' =
                IF failed THEN [ctor EXCEPT !.pc = "error", !.status = status]
                ELSE IF ctor.chan < Len(resources.all_channels_list)
                THEN [ctor EXCEPT !.chan = @ + 1]
                ELSE [ctor EXCEPT !.chan = 0,
                        !.pc = IF ctor.with_procfs THEN "procfs" ELSE "out"]
    /\ ret' = NoReturn
    /\ UNCHANGED <<numGpFifoEntries, gpu_get, current_pushes_count, ecc_enabled,
                   ecc_error_notifier, alive, mgr_state, retired, asserts, th,
                   push, push_limit, engines, resources, channel_manager_out,
                   posted_writes, store_buffer>>

\* lines 843-847: manager_create_procfs()
CreateProcfs ==
    /\ ctor.pc = "procfs"
    /\ \/ ctor' = [ctor EXCEPT !.pc = "out"]
       \/ \E status \in CalleeErrors :
            ctor' = [ctor EXCEPT !.pc = "error", !.status = status]
    /\ ret' = NoReturn
    /\ UNCHANGED <<ring, device, global_status, alive, mgr_state, retired,
                   asserts, th, push, push_limit, engines, resources,
                   channel_manager_out, memory>>

\* lines 849-851: the manager is handed to the caller
CreateReturn ==
    /\ ctor.pc = "out"
    /\ channel_manager_out' = "manager"
    /\ mgr_state' = "Ready"
    /\ ctor' = [ctor EXCEPT !.pc = "returned"]
    /\ ret' = CreateReturned(ctor.status)
    /\ UNCHANGED <<ring, device, global_status, alive, retired, asserts, th,
                   push, push_limit, engines, resources, memory>>

\* lines 853-854, uvm_channel_manager_destroy() lines 868-872: the first
\* channel of all_channels_list is unlisted and destroyed, destroy_channel()
\* with its assertion and its forced progress update (lines 521-549)
CreateDestroyChannel ==
    /\ ctor.pc = "error"
    /\ resources.all_channels_list # <<>>
    /\ LET c == Head(resources.all_channels_list)
           u == update_progress_with_max(c, numGpFifoEntries[c],
                    UVM_CHANNEL_UPDATE_MODE_FORCE_ALL, sem_payload[c])
       IN  /\ IF queued_value[c] > 0
              THEN /\ asserts' =
                        IF /\ global_status = NV_OK
                           /\ uvm_channel_get_status(c) = NV_OK
                           /\ ~tracking_semaphore_is_completed(c)
                        THEN asserts \cup {"tracking_semaphore_is_completed"}
                        ELSE asserts
                   /\ gpu_get' = [gpu_get EXCEPT ![c] = u.gpu_get]
                   /\ available_push_infos' = [available_push_infos EXCEPT
                        ![c] = @ \o [i \in 1..Len(u.done) |-> u.done[i].push_info]]
                   /\ retired' = [retired EXCEPT ![c] = @ \o
                        [i \in 1..Len(u.done) |->
                            u.done[i].tracking_semaphore_value]]
              ELSE UNCHANGED <<asserts, gpu_get, available_push_infos, retired>>
           /\ alive' = [alive EXCEPT ![c] = FALSE]
           /\ resources' = [resources EXCEPT
                !.all_channels_list = Tail(@),
                !.channels[c] = "freed",
                !.destroy_calls[c] = @ + 1]
    /\ ret' = NoReturn
    /\ UNCHANGED <<numGpFifoEntries, cpu_put, current_pushes_count,
                   gpfifo_entries, queued_value, device, global_status,
                   mgr_state, th, push, push_limit, engines, ctor,
                   channel_manager_out, memory>>

\* uvm_channel_manager_destroy() lines 874-878 and the return of line 855
CreateDestroyManager ==
    /\ ctor.pc = "error"
    /\ resources.all_channels_list = <<>>
    /\ resources' = [resources EXCEPT
            !.pushbuffer = IF @ = "created" THEN "destroyed" ELSE @,
            !.manager = "freed"]
    /\ mgr_state' = "Destroyed"
    /\ ctor' = [ctor EXCEPT !.pc = "returned"]
    /\ ret' = CreateReturned(ctor.status)
    /\ UNCHANGED <<ring, device, global_status, alive, retired, asserts, th,
                   push, push_limit, engines, channel_manager_out, memory>>

\* ------------------------------------------------------ specification
\* the entry of the ring at index i after q pushes: the push with tracking
\* value k is written at index (k - 1) % n with push info (k - 1) % n, the
\* head of the free list when each push is begun right after its claim
LastPushAt(i, n, q) ==
    LET ks == {k \in 1..q : (k - 1) % n = i}
    IN  IF ks = {} THEN ZeroEntry
        ELSE LET k == CHOOSE x \in ks : \A y \in ks : y <= x
             IN  Entry(k, (k - 1) % n)

\* a CE usable for every channel type
FullCap ==
    [supported |-> TRUE, grce |-> FALSE, sysmem |-> TRUE, sysmemRead |-> TRUE,
     sysmemWrite |-> TRUE, p2p |-> TRUE, nvlinkP2p |-> FALSE, shared |-> FALSE,
     cePceMask |-> 1]

\* channel_manager_pick_copy_engines(), lines 772-775, before the first pick
NoPicks ==
    [usage_count |-> [i \in CopyEngines |-> 0],
     ce_to_use_by_type |-> [type \in AllTypes |-> UVM_COPY_ENGINE_COUNT_MAX]]

\* uvm_channel_manager_create_common() before its call
IdleCtor ==
    [pc |-> "idle", status |-> NV_OK, with_procfs |-> FALSE, type |-> 0,
     i |-> 0, chan |-> 0]

\* A manager whose channels have rings of n entries, in the state after
\* Q[c] pushes were ended on channel c (the push of init_channels() included),
\* the GPU completed the first S[c] of them and progress updates retired the
\* first R[c]: the free list holds the push infos not in use, in the order
\* create_channel() listed and the updates returned them.
Constructed(n, Q, R, S) ==
    LET created == DOMAIN Q
    IN  /\ numGpFifoEntries = [c \in created |-> n]
        /\ cpu_put = [c \in created |-> Q[c] % n]
        /\ gpu_get = [c \in created |-> R[c] % n]
        /\ current_pushes_count = [c \in created |-> 0]
        /\ gpfifo_entries = [c \in created |->
                [i \in 0..(n - 1) |-> LastPushAt(i, n, Q[c])]]
        /\ available_push_infos = [c \in created |->
                [j \in 1..(n - (Q[c] - R[c])) |-> (Q[c] + j - 1) % n]]
        /\ queued_value = [c \in created |-> Q[c]]
        /\ sem_payload = [c \in created |-> S[c]]
        /\ errorNotifier = [c \in created |-> 0]
        /\ retired = [c \in created |-> [k \in 1..R[c] |-> k]]
        /\ alive = [c \in created |-> TRUE]
        /\ ecc_error_notifier = FALSE
        /\ global_status = NV_OK
        /\ mgr_state = "Ready"
        /\ asserts = {}
        /\ th = [t \in Threads |-> IdleThread]
        /\ push = [t \in Threads |-> NoPush]
        /\ ce_caps = [i \in CopyEngines |-> FullCap]
        /\ usage_count = picks(ce_caps, 1, NoPicks).usage_count
        /\ ce_to_use_by_type = picks(ce_caps, 1, NoPicks).ce_to_use_by_type
        /\ picker = [pc |-> "returned", i |-> 0, status |-> NV_OK]
        /\ ctor = [IdleCtor EXCEPT !.pc = "returned"]
        /\ resources = [manager |-> "allocated", pushbuffer |-> "created",
                        channels |-> [c \in created |-> "allocated"],
                        destroy_calls |-> [c \in created |-> 0],
                        all_channels_list |->
                            [i \in 1..Cardinality(created) |-> i]]
        /\ channel_manager_out = "manager"
        /\ store_buffer = <<>>
        /\ visible = [gp_put |-> cpu_put,
                      entries |-> [c \in created |-> [i \in 0..(n - 1) |->
                            DeviceEntry(gpfifo_entries[c][i])]],
                      channel_tracking_value |-> [t \in Threads |-> NoTracking]]

\* no call has returned yet
InitRings(n, Q, R, S) == Constructed(n, Q, R, S) /\ ret = NoReturn

\* The state uvm_channel_manager_create_common() leaves: every channel has
\* numGpFifoEntries zeroed entries and push infos 0..N-1 listed in order
\* (lines 485-498), and init_channels() has pushed and waited for one push.
InitManager(pools, n) ==
    LET created == 1..(pools * UVM_CHANNELS_PER_POOL)
    IN  InitRings(n, [c \in created |-> 1], [c \in created |-> 0],
                  [c \in created |-> 1])

\* The ring protocol: claims, pushes and progress updates by concurrent
\* threads and completions by the GPU, on the channels of one pool, without
\* channel errors, up to the manager's teardown.
Init ==
    /\ InitManager(1, RingSize)
    /\ ecc_enabled = FALSE
    /\ push_limit = MaxPushes
    /\ posted_writes = FALSE

Next ==
    \/ \E t \in Threads, c \in Channels : ReserveCall(t, c)
    \/ \E t \in Threads : ReserveLoop(t)
    \/ \E t \in Threads, p \in Pools : ReserveTypeCall(t, p)
    \/ \E t \in Threads : ReserveTypeScan(t)
    \/ \E t \in Threads : ReserveTypeClaim(t)
    \/ \E t \in Threads : UpdateCompletedValue(t)
    \/ \E t \in Threads : UpdateProgressLocked(t)
    \/ \E t \in Threads, c \in Channels : UpdateProgressCall(t, c)
    \/ \E t \in Threads : CheckStatus(t)
    \/ \E t \in Threads : BeginPush(t)
    \/ \E t \in Threads : EndPush(t)
    \/ \E t \in Threads : ManagerDestroyCall(t)
    \/ \E t \in Threads : DestroyCheck(t)
    \/ \E t \in Threads : DestroyFree(t)
    \/ \E c \in Channels : GpuComplete(c)

Spec == Init /\ [][Next]_vars

\* Channel errors: one thread claims and pushes (its waits poll progress and
\* errors) while the GPU raises channel and ECC errors and another thread
\* checks for errors and, once every caller has stopped, tears the manager
\* down.  Two pools are created; the pushes go to the channels of the first,
\* each of which starts as init_channels() left it or with its ring full:
\* N - 1 pushes ended that the GPU has not completed, the push of
\* init_channels() retired.
Pushers == {1}
Checkers == {2}
PushPools == {0}
InitFault ==
    LET n == FaultRingSize
        created == 1..(2 * UVM_CHANNELS_PER_POOL)
    IN  \E Q \in [created -> {1, n}] :
            /\ \A c \in created : PoolOf(c) \notin PushPools => Q[c] = 1
            /\ InitRings(n, Q, [c \in created |-> IF Q[c] = n THEN 1 ELSE 0],
                         [c \in created |-> 1])
            /\ ecc_enabled \in BOOLEAN
            /\ push_limit = SumOver(Q, created) - 2 * UVM_CHANNELS_PER_POOL
                                + FaultMaxPushes
            /\ posted_writes = FALSE

NextFault ==
    \/ \E t \in Pushers, c \in {d \in Channels : PoolOf(d) \in PushPools} :
            ReserveCall(t, c)
    \/ \E t \in Threads : ReserveLoop(t)
    \/ \E t \in Pushers, p \in PushPools : ReserveTypeCall(t, p)
    \/ \E t \in Threads : ReserveTypeScan(t)
    \/ \E t \in Threads : ReserveTypeClaim(t)
    \/ \E t \in Threads : UpdateCompletedValue(t)
    \/ \E t \in Threads : UpdateProgressLocked(t)
    \/ \E t \in Threads : CheckStatus(t)
    \/ \E t \in Checkers, c \in Channels : CheckErrorsCall(t, c)
    \/ \E t \in Threads : FirstPendingEntry(t)
    \/ \E t \in Threads : SetFatalError(t)
    \/ \E t \in Checkers : ManagerCheckErrorsCall(t)
    \/ \E t \in Pushers : BeginPush(t)
    \/ \E t \in Pushers : EndPush(t)
    \/ \E t \in Checkers : ManagerDestroyCall(t)
    \/ \E t \in Threads : DestroyCheck(t)
    \/ \E t \in Threads : DestroyFree(t)
    \/ \E c \in Channels : GpuComplete(c)
    \/ \E c \in Channels : GpuFault(c)
    \/ GpuEccError

SpecFault == InitFault /\ [][NextFault]_vars

\* Reclamation: the ring of the first channel holds the entries of m pushes
\* ended after bring-up, of which the GPU has completed the first s and
\* earlier progress updates have retired the first r.  One thread calls
\* uvm_channel_update_progress and the other uvm_channel_update_progress_all
\* while the GPU completes pushes.
InitReclaim ==
    LET n == ReclaimRingSize
        created == 1..UVM_CHANNELS_PER_POOL
    IN  \E m \in 0..ReclaimMaxPushes :
          \E s \in 1..(m + 1) :
            \E r \in 0..s :
              /\ m + 1 - r <= n - 1
              /\ InitRings(n,
                    [c \in created |-> IF c = 1 THEN m + 1 ELSE 1],
                    [c \in created |-> IF c = 1 THEN r ELSE 0],
                    [c \in created |-> IF c = 1 THEN s ELSE 1])
              /\ ecc_enabled = FALSE
              /\ push_limit = m
              /\ posted_writes = FALSE

NextReclaim ==
    \/ \E t \in Pushers, c \in Channels : UpdateProgressCall(t, c)
    \/ \E t \in Checkers, c \in Channels : UpdateProgressAllCall(t, c)
    \/ \E t \in Threads : UpdateProgressLocked(t)
    \/ \E c \in Channels : GpuComplete(c)

SpecReclaim == InitReclaim /\ [][NextReclaim]_vars

\* uvm_channel_manager_create_common() after line 813: the manager is
\* allocated and zeroed, no channel exists and nothing calls into the layer
InitConstructing ==
    /\ numGpFifoEntries = <<>> /\ cpu_put = <<>> /\ gpu_get = <<>>
    /\ current_pushes_count = <<>> /\ gpfifo_entries = <<>>
    /\ available_push_infos = <<>> /\ queued_value = <<>>
    /\ sem_payload = <<>> /\ errorNotifier = <<>>
    /\ retired = <<>> /\ alive = <<>>
    /\ ecc_enabled = FALSE /\ ecc_error_notifier = FALSE
    /\ global_status = NV_OK
    /\ mgr_state = "Constructing"
    /\ asserts = {}
    /\ th = [t \in Threads |-> IdleThread]
    /\ push = [t \in Threads |-> NoPush]
    /\ push_limit = 0
    /\ ret = NoReturn
    /\ usage_count = [i \in CopyEngines |-> 0]
    /\ ce_to_use_by_type = [type \in AllTypes |-> 0]
    /\ picker = [pc |-> "idle", i |-> 0, status |-> NV_OK]
    /\ channel_manager_out = "unset"
    /\ posted_writes = FALSE
    /\ store_buffer = <<>>
    /\ visible = [gp_put |-> <<>>, entries |-> <<>>,
                  channel_tracking_value |-> [t \in Threads |-> NoTracking]]

\* the values of cePceMask: one and two physical copy engines
PceMasks == {1, 3}

\* The capabilities of one CE.  A CE that is not supported or is a GRCE is
\* usable for no type, whatever its other fields; sysmemRead and sysmemWrite
\* are read only of CEs usable for CPU_TO_GPU and GPU_TO_CPU, which have
\* sysmem set, so they vary only with sysmem set; a CE that reaches peers
\* over NVLINK reaches peers.
CapValues ==
    {[FullCap EXCEPT !.supported = FALSE], [FullCap EXCEPT !.grce = TRUE]}
    \cup {cap \in [supported : {TRUE}, grce : {FALSE}, sysmem : BOOLEAN,
                   sysmemRead : BOOLEAN, sysmemWrite : BOOLEAN,
                   p2p : BOOLEAN, nvlinkP2p : BOOLEAN, shared : BOOLEAN,
                   cePceMask : PceMasks] :
            /\ cap.sysmem \/ (~cap.sysmemRead /\ ~cap.sysmemWrite)
            /\ cap.nvlinkP2p => cap.p2p}

\* Copy engine selection: channel_manager_pick_copy_engines() called during
\* construction on every table of capabilities.
InitEngines ==
    /\ InitConstructing
    /\ ce_caps \in [CopyEngines -> CapValues]
    /\ ctor = [IdleCtor EXCEPT !.pc = "pick_copy_engines"]
    /\ resources = [manager |-> "allocated", pushbuffer |-> "created",
                    channels |-> <<>>, destroy_calls |-> <<>>,
                    all_channels_list |-> <<>>]

NextEngines ==
    \/ PickCopyEnginesCall
    \/ PickCe
    \/ PickCheck

SpecEngines == InitEngines /\ [][NextEngines]_vars

\* the channels uvm_channel_manager_create_common() creates
AllCreated == 1..((UVM_CHANNEL_TYPE_COUNT - 1) * UVM_CHANNELS_PER_POOL)

\* tables of capabilities: every CE usable for every type, and no CE that
\* reaches peers
CreateTables ==
    {[i \in CopyEngines |-> FullCap],
     [i \in CopyEngines |-> [FullCap EXCEPT !.p2p = FALSE]]}

\* Construction: uvm_channel_manager_create_common() from its call to its
\* return, every callee succeeding or failing.
InitCreate ==
    /\ InitConstructing
    /\ ce_caps \in CreateTables
    /\ ctor = IdleCtor
    /\ resources = [manager |-> "none", pushbuffer |-> "none",
                    channels |-> [c \in AllCreated |-> "none"],
                    destroy_calls |-> [c \in AllCreated |-> 0],
                    all_channels_list |-> <<>>]

NextCreate ==
    \/ CreateCall
    \/ CreatePushbuffer
    \/ CreateProcfsDirs
    \/ PickCopyEnginesCall
    \/ PickCe
    \/ PickCheck
    \/ CreatePicked
    \/ CreateChannel
    \/ InitChannel
    \/ CreateProcfs
    \/ CreateReturn
    \/ CreateDestroyChannel
    \/ CreateDestroyManager

SpecCreate == InitCreate /\ [][NextCreate]_vars

\* Posted stores: the stores of uvm_channel_end_push() reach the device
\* asynchronously while threads claim, push and update progress and the GPU
\* runs what GPPUT covers.
InitDoorbell ==
    /\ Constructed(RingSize,
            [c \in 1..UVM_CHANNELS_PER_POOL |-> 1],
            [c \in 1..UVM_CHANNELS_PER_POOL |-> 0],
            [c \in 1..UVM_CHANNELS_PER_POOL |-> 1])
    /\ ret = NoReturn
    /\ ecc_enabled = FALSE
    /\ push_limit = DoorbellMaxPushes
    /\ posted_writes = TRUE

NextDoorbell ==
    \/ \E t \in Threads, c \in Channels : ReserveCall(t, c)
    \/ \E t \in Threads : ReserveLoop(t)
    \/ \E t \in Threads : UpdateCompletedValue(t)
    \/ \E t \in Threads : UpdateProgressLocked(t)
    \/ \E t \in Threads : CheckStatus(t)
    \/ \E t \in Threads : BeginPush(t)
    \/ \E t \in Threads : EndPush(t)
    \/ \E c \in Channels : GpuComplete(c)
    \/ StoreCommit

SpecDoorbell == InitDoorbell /\ [][NextDoorbell]_vars

\* The error print: the ring of the first channel is full of pending pushes.
\* One thread pushes on that channel, its reserve polling progress, while the
\* GPU completes entries and raises the channel's error, and another thread
\* checks the channel for errors.
InitReport ==
    LET created == 1..UVM_CHANNELS_PER_POOL
    IN  /\ InitRings(ReportRingSize,
                [c \in created |-> IF c = 1 THEN ReportRingSize ELSE 1],
                [c \in created |-> IF c = 1 THEN 1 ELSE 0],
                [c \in created |-> 1])
        /\ ecc_enabled = FALSE
        /\ push_limit = ReportRingSize - 1 + ReportMaxPushes
        /\ posted_writes = FALSE

NextReport ==
    \/ \E t \in Pushers : ReserveCall(t, 1)
    \/ \E t \in Threads : ReserveLoop(t)
    \/ \E t \in Threads : UpdateCompletedValue(t)
    \/ \E t \in Threads : UpdateProgressLocked(t)
    \/ \E t \in Threads : CheckStatus(t)
    \/ \E t \in Checkers : CheckErrorsCall(t, 1)
    \/ \E t \in Threads : FirstPendingEntry(t)
    \/ \E t \in Threads : SetFatalError(t)
    \/ \E t \in Pushers : BeginPush(t)
    \/ \E t \in Pushers : EndPush(t)
    \/ GpuComplete(1)
    \/ GpuFault(1)

SpecReport == InitReport /\ [][NextReport]_vars

\* The manager-wide wait: one thread waits for the manager while the other
\* pushes on the first channel, whose ring starts with one push pending, its
\* reserve polling progress and errors; the GPU completes entries and raises
\* channel errors.
Waiters == {2}
InitWait ==
    LET created == 1..UVM_CHANNELS_PER_POOL
    IN  /\ InitRings(WaitRingSize,
                [c \in created |-> IF c = 1 THEN 2 ELSE 1],
                [c \in created |-> IF c = 1 THEN 1 ELSE 0],
                [c \in created |-> 1])
        /\ ecc_enabled = FALSE
        /\ push_limit = 1 + WaitMaxPushes
        /\ posted_writes = FALSE

NextWait ==
    \/ \E t \in Waiters : ManagerWaitCall(t)
    \/ \E t \in Pushers : ReserveCall(t, 1)
    \/ \E t \in Threads : ReserveLoop(t)
    \/ \E t \in Threads : UpdateCompletedValue(t)
    \/ \E t \in Threads : UpdateProgressLocked(t)
    \/ \E t \in Threads : ManagerCheckGlobal(t)
    \/ \E t \in Threads : CheckStatus(t)
    \/ \E t \in Threads : FirstPendingEntry(t)
    \/ \E t \in Threads : SetFatalError(t)
    \/ \E t \in Pushers : BeginPush(t)
    \/ \E t \in Pushers : EndPush(t)
    \/ \E c \in Channels : GpuComplete(c)
    \/ \E c \in Channels : GpuFault(c)

SpecWait == InitWait /\ [][NextWait]_vars

\* The blocked reserve: the first thread reserves, begins and ends pushes on
\* the first channel, whose ring starts as init_channels() left it or full,
\* and is the only thread that polls; the second thread claims a slot only
\* when one is free, and begins and ends its push; the channel stays without
\* error.  The scheduler runs a thread that can take a step (weak fairness of
\* the steps of the blocked reserve and of the other thread's begin and end)
\* and the GPU completes every entry it has been given.
Blocked == {1}
Others == {2}
InitLive ==
    LET n == LiveRingSize
        created == 1..UVM_CHANNELS_PER_POOL
    IN  \E q \in {1, n} :
            /\ InitRings(n,
                    [c \in created |-> IF c = 1 THEN q ELSE 1],
                    [c \in created |-> IF c = 1 /\ q = n THEN 1 ELSE 0],
                    [c \in created |-> 1])
            /\ ecc_enabled = FALSE
            /\ push_limit = q - 1 + LiveMaxPushes
            /\ posted_writes = FALSE

NextLive ==
    \/ \E t \in Blocked : ReserveCall(t, 1)
    \/ \E t \in Others : is_channel_available(1) /\ ReserveCall(t, 1)
    \/ \E t \in Blocked : ReserveLoop(t)
    \/ \E t \in Blocked : UpdateCompletedValue(t)
    \/ \E t \in Blocked : UpdateProgressLocked(t)
    \/ \E t \in Blocked : CheckStatus(t)
    \/ \E t \in Threads : BeginPush(t)
    \/ \E t \in Threads : EndPush(t)
    \/ GpuComplete(1)

FairLive ==
    /\ \A t \in Blocked :
        /\ WF_vars(ReserveLoop(t))
        /\ WF_vars(UpdateCompletedValue(t))
        /\ WF_vars(UpdateProgressLocked(t))
        /\ WF_vars(CheckStatus(t))
    /\ \A t \in Others : WF_vars(BeginPush(t)) /\ WF_vars(EndPush(t))
    /\ WF_vars(GpuComplete(1))

SpecLive == InitLive /\ [][NextLive]_vars /\ FairLive

\* --------------------------------------------------------- properties
Min(a, b) == IF a < b THEN a ELSE b
FaultStatuses == {NV_ERR_RC_ERROR, NV_ERR_ECC_ERROR}

\* the ring of channel c is full: claims and pending entries take N - 1 slots
Full(c) == current_pushes_count[c] + Pending(c) = numGpFifoEntries[c] - 1

\* this step is thread t's call of uvm_channel_reserve or
\* uvm_channel_reserve_type, which makes the call's first claim attempt
ReserveCalled(t) ==
    /\ th[t].pc = "idle"
    /\ \/ th'[t].op \in {"reserve", "reserve_type"}
       \/ ret'.t = t /\ ret'.op \in {"reserve", "reserve_type"}

\* this step is one try_claim_channel(c) by thread t
ClaimAttempt(t, c) ==
    \/ /\ th[t].pc \in {"reserve_loop", "rt_scan", "rt_claim"}
       /\ th'[t] # th[t]
       /\ c = th[t].ch
    \/ /\ th[t].pc = "idle"
       /\ \/ ret'.t = t /\ ret'.op \in {"reserve", "reserve_type"} /\ ret'.ch = c
          \/ th'[t].op = "reserve" /\ th'[t].ch = c
          \/ th'[t].op = "reserve_type" /\ c = PoolChannel(PoolOf(th'[t].ch), 1)

\* C1: on every channel the number of claims in flight is at least zero and,
\* added to the pending ring entries (put - get) mod N, at most N - 1, in
\* every state reached by reserve, reserve_type, begin, end and progress
\* updates of concurrent threads and completions of the GPU.
RingOccupancyBounded ==
    \A c \in Channels :
        /\ current_pushes_count[c] >= 0
        /\ current_pushes_count[c] + Pending(c) <= numGpFifoEntries[c] - 1

\* a ring filled to N - 1 by pending entries and claims in flight,
\* one of them with its push begun
RingOccupancyReached ==
    \E c \in Channels :
        /\ Full(c) /\ Pending(c) >= 1 /\ current_pushes_count[c] >= 1
        /\ \E t \in Threads : push[t].state = "begun" /\ push[t].channel = c

\* C2: one try_claim_channel succeeds if and only if
\* (put + claimed count + 1) mod N differs from get; when it succeeds it adds
\* exactly one to the claimed count of that channel and the caller returns,
\* when it fails no claimed count changes and no caller is told of a claim;
\* put, get, the ring entries and the free list stay as they are either way.
ClaimAttemptExact ==
    [][\A t \in Threads : \A c \in Channels :
        ClaimAttempt(t, c) =>
            LET n == numGpFifoEntries[c]
                free == (cpu_put[c] + current_pushes_count[c] + 1) % n # gpu_get[c]
            IN  /\ free =>
                    /\ current_pushes_count'[c] = current_pushes_count[c] + 1
                    /\ ret'.t = t /\ ret'.ch = c /\ ret'.status = NV_OK
                    /\ push'[t] = Reserved(c)
                /\ ~free =>
                    /\ current_pushes_count'[c] = current_pushes_count[c]
                    /\ ret'.t # t
                    /\ push'[t] = push[t]
                /\ \A d \in Channels \ {c} :
                        current_pushes_count'[d] = current_pushes_count[d]
                /\ UNCHANGED <<numGpFifoEntries, cpu_put, gpu_get, gpfifo_entries,
                               available_push_infos, queued_value>>
      ]_vars

\* one thread's claim has just succeeded on a channel while the other
\* thread, whose claim attempt on a full ring failed, is in its progress
\* update
ClaimAttemptReached ==
    \E t, u \in Threads :
        /\ ret.t = t /\ ret.op = "reserve" /\ ret.status = NV_OK
        /\ push[t] = Reserved(ret.ch)
        /\ u # t /\ th[u].op = "reserve" /\ th[u].pc = "up_walk"
        /\ Full(th[u].ch)

\* C7: the tracking values retired on a channel are 1, 2, 3, ... in this
\* order, one retirement per advance of get by one modulo N: no value is
\* retired before a lower one, none twice, and every submitted entry is
\* either retired or still pending, whatever progress updates (completed-only
\* or forced) interleave.
RetiredInSubmissionOrder ==
    \A c \in Channels :
        /\ \A i \in 1..Len(retired[c]) : retired[c][i] = i
        /\ gpu_get[c] = Len(retired[c]) % numGpFifoEntries[c]
        /\ Len(retired[c]) + Pending(c) = queued_value[c]

\* a channel whose ring has wrapped, with retirements by completed-only
\* updates followed by a forced one of entries the GPU has not completed
RetiredInSubmissionOrderReached ==
    \E c \in Channels :
        /\ Len(retired[c]) > numGpFifoEntries[c]
        /\ sem_payload[c] < Len(retired[c])
        /\ sem_payload[c] >= 2

\* the leading pending entries of c whose tracking value is at most cv
LeadingCompleted(c, cv) ==
    Cardinality({k \in 1..Pending(c) :
        \A j \in 0..(k - 1) :
            gpfifo_entries[c][(gpu_get[c] + j) % numGpFifoEntries[c]]
                .tracking_semaphore_value <= cv})

\* this step is the locked walk of a progress update by thread t
ProgressWalk(t) == th[t].pc = "up_walk" /\ th'[t] # th[t]

\* C8: a completed-only progress update retires no entry whose tracking
\* value is above the completed value the call read; when it is done get is
\* at put, or at an entry above that value, or the budget is used up; and no
\* retired entry is one the GPU has not completed.
NormalRetiresOnlyCompleted ==
    /\ [][\A t \in Threads :
            (ProgressWalk(t) /\ th[t].mode \in {"default", "all"}) =>
                LET c == th[t].ch
                    budget == IF th[t].mode = "default" THEN 8
                              ELSE numGpFifoEntries[c]
                IN  /\ \A i \in (Len(retired[c]) + 1)..Len(retired'[c]) :
                            retired'[c][i] <= th[t].cv
                    /\ \/ gpu_get'[c] = cpu_put[c]
                       \/ gpfifo_entries[c][gpu_get'[c]].tracking_semaphore_value
                            > th[t].cv
                       \/ Len(retired'[c]) - Len(retired[c]) = budget
         ]_vars
    /\ [](\A c \in Channels : Len(retired[c]) <= sem_payload[c])

\* a completed-only update has returned and left get at an entry the GPU
\* has not completed, behind entries it has retired
NormalRetiresOnlyCompletedReached ==
    /\ ret.op \in {"update_progress", "update_progress_all"}
    /\ ret.count >= 1 /\ ret.count = Pending(ret.ch)
    /\ Len(retired[ret.ch]) = sem_payload[ret.ch]
    /\ gpfifo_entries[ret.ch][gpu_get[ret.ch]].tracking_semaphore_value
            = sem_payload[ret.ch] + 1

\* C9: a completed-only progress update with budget B (8 for
\* uvm_channel_update_progress, N for uvm_channel_update_progress_all) on a
\* ring with p pending entries, the oldest c of them at or below the
\* completed value the call read, retires min(B, c) entries and returns
\* p - min(B, c), which is (put - get) mod N after the call.
ReclaimCountExact ==
    [][\A t \in Threads :
        ProgressWalk(t) =>
            LET c == th[t].ch
                p == Pending(c)
                budget == IF th[t].op = "update_progress" THEN 8
                          ELSE numGpFifoEntries[c]
                k == Min(budget, LeadingCompleted(c, th[t].cv))
            IN  /\ Len(retired'[c]) = Len(retired[c]) + k
                /\ gpu_get'[c] = (gpu_get[c] + k) % numGpFifoEntries[c]
                /\ ret'.t = t /\ ret'.ch = c
                /\ ret'.count = p - k
                /\ ret'.count = (cpu_put'[c] - gpu_get'[c] + numGpFifoEntries[c])
                                    % numGpFifoEntries[c]
      ]_vars

\* uvm_channel_update_progress has returned 2 on a wrapped ring (put below
\* get) all of whose entries the GPU has completed: of 10 pending it retired 8
ReclaimCountReached ==
    /\ ret.op = "update_progress" /\ ret.count = 2
    /\ sem_payload[ret.ch] = queued_value[ret.ch]
    /\ Pending(ret.ch) = 2
    /\ cpu_put[ret.ch] < gpu_get[ret.ch]

\* this step is thread t's test of the loop of uvm_channel_reserve (line 325)
ReserveLoopTest(t) == th[t].pc = "reserve_loop" /\ th'[t] # th[t]

\* this step is the read of the channel's status by uvm_channel_check_errors,
\* called from the waiting loop of reserve or reserve_type by thread t
WaiterPoll(t) ==
    /\ th[t].pc = "ce_status"
    /\ th[t].op \in {"reserve", "reserve_type"}
    /\ th'[t] # th[t]

\* the status uvm_channel_get_status reads from the notifiers of channel c
NotifierStatus(c) ==
    IF errorNotifier[c] = 0 THEN NV_OK
    ELSE IF ecc_enabled /\ ecc_error_notifier THEN NV_ERR_ECC_ERROR
    ELSE NV_ERR_RC_ERROR

CheckErrorsCalled(t, c) ==
    /\ th[t].pc = "idle"
    /\ \/ ret'.t = t /\ ret'.op = "check_errors" /\ ret'.ch = c
       \/ th'[t].op = "check_errors" /\ th'[t].ch = c

\* this step is thread t's call of uvm_channel_manager_check_errors
ManagerCheckErrorsCalled(t) ==
    /\ th[t].pc = "idle"
    /\ \/ ret'.t = t /\ ret'.op = "manager_check_errors"
       \/ th'[t].op = "manager_check_errors"

DestroyChecked(t, c) ==
    \/ th[t].pc = "dc_check" /\ th'[t] # th[t] /\ c = th[t].ch
    \/ /\ mgr_state = "Ready" /\ mgr_state' = "Destroying"
       /\ th'[t].op = "manager_destroy" /\ c = 1

\* the forced update of destroy_channel(c) is done
Drained(c) ==
    /\ gpu_get[c] = cpu_put[c]
    /\ Len(retired[c]) = queued_value[c]
    /\ Len(available_push_infos[c]) = numGpFifoEntries[c]
    /\ {available_push_infos[c][i] : i \in 1..numGpFifoEntries[c]}
            = 0..(numGpFifoEntries[c] - 1)

SlotPlaces(c, s) ==
    Cardinality({i \in 1..Len(available_push_infos[c]) :
                    available_push_infos[c][i] = s})
    + Cardinality({t \in Threads :
                    /\ push[t].state = "begun" /\ push[t].channel = c
                    /\ push[t].push_info_index = s})
    + Cardinality({j \in 0..(Pending(c) - 1) :
                    gpfifo_entries[c][(gpu_get[c] + j) % numGpFifoEntries[c]]
                        .push_info = s})

\* this step is a successful uvm_channel_begin_push by thread t
Begun(t) == push[t].state = "reserved" /\ push'[t].state = "begun"

\* C11: on every channel each of the N push infos is in exactly one place:
\* once in the free list, or held by one begun push, or bound to one pending
\* ring entry.  A begin hands out the head of the free list, which no other
\* push and no pending entry holds, and takes it off the list; so a push
\* info is handed out again only after the entry it was bound to was retired.
SlotsInOnePlace ==
    /\ [](\A c \in Channels :
            /\ \A s \in 0..(numGpFifoEntries[c] - 1) : SlotPlaces(c, s) = 1
            /\ \A i \in 1..Len(available_push_infos[c]) :
                    available_push_infos[c][i] \in 0..(numGpFifoEntries[c] - 1))
    /\ [][\A t \in Threads :
            Begun(t) =>
                LET c == push[t].channel
                    s == push'[t].push_info_index
                IN  /\ s = Head(available_push_infos[c])
                    /\ available_push_infos'[c] = Tail(available_push_infos[c])
                    /\ \A u \in Threads \ {t} :
                            ~(/\ push[u].state = "begun" /\ push[u].channel = c
                              /\ push[u].push_info_index = s)
                    /\ \A j \in 0..(Pending(c) - 1) :
                            gpfifo_entries[c][(gpu_get[c] + j) % numGpFifoEntries[c]]
                                .push_info # s
         ]_vars

\* a begun push holds a push info that a retired entry was bound to, while
\* another entry of the ring is pending
SlotsInOnePlaceReached ==
    \E t \in Threads :
        LET c == push[t].channel
        IN  /\ push[t].state = "begun"
            /\ Pending(c) >= 1
            /\ \E i \in 0..(numGpFifoEntries[c] - 1) :
                    /\ gpfifo_entries[c][i].push_info = push[t].push_info_index
                    /\ gpfifo_entries[c][i].tracking_semaphore_value \in
                            {retired[c][k] : k \in 1..Len(retired[c])}

\* this step is uvm_channel_end_push by thread t
Ended(t) == push[t].state = "begun" /\ push'[t].state = "none"

\* C12: on every channel the pending entries, walked from get to put, hold
\* consecutive tracking values that end at the queued value, so they strictly
\* increase and no two entries of the ring share a value; an end takes the
\* queued value plus one, whichever thread's end came before, and only an
\* end changes the queued value.
TrackingValuesIncrease ==
    /\ [](\A c \in Channels :
            LET n == numGpFifoEntries[c]
            IN  /\ \A j \in 0..(Pending(c) - 1) :
                        gpfifo_entries[c][(gpu_get[c] + j) % n].tracking_semaphore_value
                            = queued_value[c] - Pending(c) + j + 1
                /\ \A i, j \in 0..(n - 1) :
                        (/\ i # j
                         /\ gpfifo_entries[c][i].tracking_semaphore_value > 0) =>
                            gpfifo_entries[c][i].tracking_semaphore_value
                                # gpfifo_entries[c][j].tracking_semaphore_value)
    /\ [][/\ \A t \in Threads :
                Ended(t) =>
                    LET c == push[t].channel
                    IN  /\ queued_value'[c] = queued_value[c] + 1
                        /\ ret'.t = t /\ ret'.op = "end_push"
                        /\ ret'.count = queued_value[c] + 1
                        /\ gpfifo_entries'[c][cpu_put[c]].tracking_semaphore_value
                                = queued_value[c] + 1
          /\ (\A t \in Threads : ~Ended(t)) => queued_value' = queued_value
         ]_vars

\* a thread's end has returned on a channel where the other thread's push
\* is begun and an earlier entry is pending across the wrap of the ring
TrackingValuesIncreaseReached ==
    \E t, u \in Threads :
        /\ t # u
        /\ ret.t = t /\ ret.op = "end_push" /\ ret.count >= 3
        /\ ret.count = queued_value[ret.ch]
        /\ Pending(ret.ch) >= 1
        /\ cpu_put[ret.ch] < gpu_get[ret.ch]
        /\ push[u].state = "begun" /\ push[u].channel = ret.ch

\* C18: one uvm_channel_end_push on channel c writes the entry at the old put
\* with the new tracking value and the push's push info, moves put to
\* (put + 1) mod N, takes one from a claimed count that was above 0 and leaves
\* get, the free list, the other entries and the other channels as they are;
\* the entry it overwrites was never used or has been retired, and the new
\* put is not get.
EndPushFrame ==
    [][\A t \in Threads :
        Ended(t) =>
            LET c == push[t].channel
                n == numGpFifoEntries[c]
                put == cpu_put[c]
                old == gpfifo_entries[c][put].tracking_semaphore_value
            IN  /\ gpfifo_entries'[c][put] =
                        [tracking_semaphore_value |-> queued_value[c] + 1,
                         push_info |-> push[t].push_info_index]
                /\ \A i \in 0..(n - 1) :
                        i # put => gpfifo_entries'[c][i] = gpfifo_entries[c][i]
                /\ cpu_put'[c] = (put + 1) % n
                /\ current_pushes_count[c] > 0
                /\ current_pushes_count'[c] = current_pushes_count[c] - 1
                /\ gpu_get' = gpu_get
                /\ available_push_infos' = available_push_infos
                /\ old = 0 \/ old \in {retired[c][k] : k \in 1..Len(retired[c])}
                /\ cpu_put'[c] # gpu_get[c]
                /\ \A d \in Channels \ {c} :
                        /\ gpfifo_entries'[d] = gpfifo_entries[d]
                        /\ cpu_put'[d] = cpu_put[d]
                        /\ current_pushes_count'[d] = current_pushes_count[d]
                        /\ queued_value'[d] = queued_value[d]
      ]_vars

\* an end has returned after writing over the place of a retired entry, put
\* wrapped to 0, with the other thread's claim still counted
EndPushFrameReached ==
    /\ ret.op = "end_push"
    /\ ret.count > numGpFifoEntries[ret.ch]
    /\ current_pushes_count[ret.ch] >= 1
    /\ Pending(ret.ch) >= 1

\* C20: a completed-only progress update that finds the ring empty, or its
\* oldest pending entry above the completed value the call read, leaves get,
\* put, the claimed count, the entries and the free list as they are, passes
\* nothing to uvm_pushbuffer_mark_completed and returns the pending count
\* (put - get) mod N; every progress update returns a count and no error.
NothingCompletedIsNoOp ==
    [][\A t \in Threads :
        ProgressWalk(t) =>
            LET c == th[t].ch
            IN  /\ ret'.t = t /\ ret'.status = NV_OK
                /\ (/\ th[t].mode \in {"default", "all"}
                    /\ \/ gpu_get[c] = cpu_put[c]
                       \/ gpfifo_entries[c][gpu_get[c]].tracking_semaphore_value
                            > th[t].cv) =>
                        /\ UNCHANGED <<numGpFifoEntries, cpu_put, gpu_get,
                                       current_pushes_count, gpfifo_entries,
                                       available_push_infos, queued_value>>
                        /\ retired' = retired
                        /\ ret'.count = Pending(c)
      ]_vars

\* a completed-only update has returned the pending count of a ring whose
\* oldest pending entry the GPU has not completed, and the other thread's
\* update of the same ring is at its walk with a completed value below it
NothingCompletedIsNoOpReached ==
    \E t \in Threads :
        /\ ret.t # t
        /\ ret.op \in {"update_progress", "update_progress_all"}
        /\ ret.count = Pending(ret.ch) /\ ret.count >= 2
        /\ gpfifo_entries[ret.ch][gpu_get[ret.ch]].tracking_semaphore_value
                > sem_payload[ret.ch]
        /\ th[t].pc = "up_walk" /\ th[t].ch = ret.ch
        /\ th[t].cv = sem_payload[ret.ch]

\* C17 (as stated): uvm_channel_reserve returns NV_OK having added exactly
\* one to the claimed count of its channel, or an RC or ECC status, read from
\* the channel's set error notifier, having added nothing to it.
ReserveClaimsOrFails ==
    [][\A t \in Threads :
        (ret'.t = t /\ ret'.op = "reserve") =>
            LET c == ret'.ch
            IN  \/ /\ ret'.status = NV_OK
                   /\ current_pushes_count'[c] = current_pushes_count[c] + 1
                \/ /\ ret'.status \in FaultStatuses
                   /\ errorNotifier[c] # 0
                   /\ current_pushes_count'[c] = current_pushes_count[c]
      ]_vars

\* uvm_channel_reserve has returned a channel error and left a claim counted
\* that no push holds
ReserveClaimsOrFailsBroken ==
    /\ ret.op = "reserve" /\ ret.status \in FaultStatuses
    /\ current_pushes_count[ret.ch] = 1
    /\ \A t \in Threads : push[t].state = "none"

\* --------------------------------------------- copy engine selection
\* some CE is usable for the type
HasEligible(type) ==
    \E i \in CopyEngines : ce_usable_for_channel_type(type, ce_caps[i])

\* C13 (as stated): channel_manager_pick_copy_engines() returns, with NV_OK
\* exactly when each of the five channel types has a usable CE and then with
\* a usable CE chosen for every type, and with NV_ERR_NOT_SUPPORTED otherwise.
EngineSelectionOutcome ==
    /\ picker.pc # "crashed"
    /\ picker.pc = "returned" =>
        /\ picker.status = NV_OK <=> \A type \in ChannelTypes : HasEligible(type)
        /\ picker.status = NV_OK => \A type \in ChannelTypes :
                /\ ce_to_use_by_type[type] \in CopyEngines
                /\ ce_usable_for_channel_type(type,
                                              ce_caps[ce_to_use_by_type[type]])
        /\ picker.status # NV_OK => picker.status = NV_ERR_NOT_SUPPORTED

\* a type had no usable CE and the increment of line 762, made one past the
\* end of usage_count[], hit the frame: the function never returned
EngineSelectionCrashed ==
    /\ picker.pc = "crashed"
    /\ \E type \in ChannelTypes :
        /\ ~HasEligible(type)
        /\ ce_to_use_by_type[type] = UVM_COPY_ENGINE_COUNT_MAX

\* What holds of every call that returns: the outcome C13 states.
EngineSelectionOutcomeOnReturn ==
    picker.pc = "returned" =>
        /\ picker.status = NV_OK <=> \A type \in ChannelTypes : HasEligible(type)
        /\ picker.status = NV_OK => \A type \in ChannelTypes :
                /\ ce_to_use_by_type[type] \in CopyEngines
                /\ ce_usable_for_channel_type(type,
                                              ce_caps[ce_to_use_by_type[type]])
        /\ picker.status # NV_OK => picker.status = NV_ERR_NOT_SUPPORTED

\* a is before b in the lexicographic order of integer tuples of one length
LexLess(a, b) ==
    \E k \in 1..Len(a) :
        /\ a[k] < b[k]
        /\ \A j \in 1..(k - 1) : a[j] = b[j]

\* the stages every ranking ends with: usage count, shared, index
LastStages(e) == <<usage_count[e], BoolInt(ce_caps[e].shared), e>>

\* The ranking of CE e for a type, stage by stage, lower first:
\*   CPU_TO_GPU    fast sysmem read, no NVLINK P2P, then the last stages
\*   GPU_TO_CPU    fast sysmem write, no NVLINK P2P, then the last stages
\*   GPU_INTERNAL  more PCEs, no NVLINK P2P, then the last stages
\*   GPU_TO_GPU    NVLINK P2P, among NVLINK CEs more PCEs, then the last stages
\*   MEMOPS        the last stages only
RankKey(type, e) ==
    LET cap == ce_caps[e]
        pces == hweight32(cap.cePceMask)
    IN  CASE type = UVM_CHANNEL_TYPE_CPU_TO_GPU ->
                <<1 - BoolInt(cap.sysmemRead), BoolInt(cap.nvlinkP2p)>>
                    \o LastStages(e)
          [] type = UVM_CHANNEL_TYPE_GPU_TO_CPU ->
                <<1 - BoolInt(cap.sysmemWrite), BoolInt(cap.nvlinkP2p)>>
                    \o LastStages(e)
          [] type = UVM_CHANNEL_TYPE_GPU_INTERNAL ->
                <<0 - pces, BoolInt(cap.nvlinkP2p)>> \o LastStages(e)
          [] type = UVM_CHANNEL_TYPE_GPU_TO_GPU ->
                <<1 - BoolInt(cap.nvlinkP2p),
                  IF cap.nvlinkP2p THEN 0 - pces ELSE 0>> \o LastStages(e)
          [] OTHER -> LastStages(e)

\* The ranking as C14 states it, the same stages for every type: the primary
\* metric of the type (none for MEMOPS), no NVLINK P2P, then the last stages
StatedRankKey(type, e) ==
    LET cap == ce_caps[e]
        primary ==
            CASE type = UVM_CHANNEL_TYPE_CPU_TO_GPU -> 1 - BoolInt(cap.sysmemRead)
              [] type = UVM_CHANNEL_TYPE_GPU_TO_CPU -> 1 - BoolInt(cap.sysmemWrite)
              [] type = UVM_CHANNEL_TYPE_GPU_INTERNAL ->
                    0 - hweight32(cap.cePceMask)
              [] type = UVM_CHANNEL_TYPE_GPU_TO_GPU -> 1 - BoolInt(cap.nvlinkP2p)
              [] OTHER -> 0
    IN  <<primary, BoolInt(cap.nvlinkP2p)>> \o LastStages(e)

\* pick_ce_for_channel_type() runs for a type that has a usable CE
PickOfEligible ==
    /\ picker.pc = "pick"
    /\ picker' # picker
    /\ HasEligible(PickOrder[picker.i])

\* C14 (amended): for a type with a usable CE the CE chosen is the one usable
\* CE that is first under the ranking of its type (RankKey) on the capability
\* table and the usage counts of that point, every other usable CE compares
\* worse, and so the choice is a function of the table and the counts.
StagedRanking ==
    [][PickOfEligible =>
        LET type == PickOrder[picker.i]
            chosen == ce_to_use_by_type'[type]
        IN  /\ chosen \in CopyEngines
            /\ ce_usable_for_channel_type(type, ce_caps[chosen])
            /\ \A e \in CopyEngines \ {chosen} :
                    ce_usable_for_channel_type(type, ce_caps[e]) =>
                        /\ LexLess(RankKey(type, chosen), RankKey(type, e))
                        /\ compare_ce_for_channel_type(ce_caps, type, e, chosen,
                                                       usage_count) > 0
      ]_vars

\* every type got a CE, all three CEs are in use, MEMOPS got a CE with NVLINK
\* P2P on its low usage count although a CE without NVLINK P2P was usable,
\* and GPU_TO_GPU got the NVLINK CE with more PCEs of two
StagedRankingReached ==
    /\ picker.pc = "check"
    /\ \A type \in ChannelTypes : ce_to_use_by_type[type] \in CopyEngines
    /\ {ce_to_use_by_type[type] : type \in ChannelTypes} = CopyEngines
    /\ ce_caps[ce_to_use_by_type[UVM_CHANNEL_TYPE_MEMOPS]].nvlinkP2p
    /\ \E e \in CopyEngines : ~ce_caps[e].nvlinkP2p /\ ce_caps[e].supported
                                /\ ~ce_caps[e].grce
    /\ \E e \in CopyEngines \ {ce_to_use_by_type[UVM_CHANNEL_TYPE_GPU_TO_GPU]} :
        /\ ce_caps[e].nvlinkP2p
        /\ ce_caps[ce_to_use_by_type[UVM_CHANNEL_TYPE_GPU_TO_GPU]].nvlinkP2p
        /\ hweight32(ce_caps[e].cePceMask) <
            hweight32(ce_caps[ce_to_use_by_type[UVM_CHANNEL_TYPE_GPU_TO_GPU]].cePceMask)

\* C14 (as stated): the CE chosen is the usable CE first under the one staged
\* ranking (primary metric, no peer capability, usage count, shared, index).
StagedRankingAsStated ==
    [][PickOfEligible =>
        LET type == PickOrder[picker.i]
            chosen == ce_to_use_by_type'[type]
        IN  /\ chosen \in CopyEngines
            /\ ce_usable_for_channel_type(type, ce_caps[chosen])
            /\ \A e \in CopyEngines \ {chosen} :
                    ce_usable_for_channel_type(type, ce_caps[e]) =>
                        LexLess(StatedRankKey(type, chosen),
                                StatedRankKey(type, e))
      ]_vars

\* the order of processing C15 states
SelectionOrder ==
    <<"CPU_TO_GPU", "GPU_TO_CPU", "GPU_INTERNAL", "GPU_TO_GPU", "MEMOPS">>

\* the types among the first k processed that selected CE e
SelectedBy(assignment, k, e) ==
    {j \in 1..k : assignment[SelectionOrder[j]] = e}

\* the stages of the ranking before the usage count
EarlyStages(type, e) == SubSeq(RankKey(type, e), 1, Len(RankKey(type, e)) - 3)

\* one pick_ce_for_channel_type() runs
PickStep == picker.pc = "pick" /\ picker' # picker

\* the CE chosen for CPU_TO_GPU is not chosen by this pick over a usable CE
\* that ties it on the stages before the usage count and was used less
NotChosenOverLessUsed(type) ==
    LET first == ce_to_use_by_type[UVM_CHANNEL_TYPE_CPU_TO_GPU]
    IN  (first \in CopyEngines /\ ce_to_use_by_type'[type] = first) =>
            \A e \in CopyEngines :
                (/\ ce_usable_for_channel_type(type, ce_caps[e])
                 /\ EarlyStages(type, e) = EarlyStages(type, first))
                    => usage_count[e] >= usage_count[first]

\* C15 (amended): the k-th pick assigns the k-th type of the order CPU_TO_GPU,
\* GPU_TO_CPU, GPU_INTERNAL, GPU_TO_GPU, MEMOPS and no other; before and
\* after it the usage count of every CE is the number of types processed so
\* far that selected it; so in every later pick the CE chosen for CPU_TO_GPU
\* has a usage count of at least 1, one more for each later type that
\* selected it again, and it is not chosen again over a CE that ties it on
\* the earlier stages and has a lower usage count.
UsageCountsAccumulate ==
    [][PickStep =>
        LET k == picker.i
            type == SelectionOrder[k]
            first == ce_to_use_by_type[UVM_CHANNEL_TYPE_CPU_TO_GPU]
        IN  /\ \A other \in AllTypes \ {type} :
                    ce_to_use_by_type'[other] = ce_to_use_by_type[other]
            /\ \A e \in CopyEngines :
                /\ usage_count[e]
                        = Cardinality(SelectedBy(ce_to_use_by_type, k - 1, e))
                /\ usage_count'[e]
                        = Cardinality(SelectedBy(ce_to_use_by_type', k, e))
            /\ (k > 1 /\ first \in CopyEngines) =>
                /\ usage_count[first] >= 1
                /\ usage_count[first]
                    = 1 + Cardinality(SelectedBy(ce_to_use_by_type, k - 1, first)
                                        \ {1})
                /\ NotChosenOverLessUsed(type)
      ]_vars

\* GPU_TO_CPU was ranked with the CE of CPU_TO_GPU at usage count 1 and went
\* to a CE of a higher index that ties it on every stage but the usage count
UsageCountsAccumulateReached ==
    /\ picker.pc = "pick" /\ picker.i = 3
    /\ LET first == ce_to_use_by_type[UVM_CHANNEL_TYPE_CPU_TO_GPU]
           second == ce_to_use_by_type[UVM_CHANNEL_TYPE_GPU_TO_CPU]
       IN  /\ first \in CopyEngines /\ second \in CopyEngines
           /\ first < second
           /\ usage_count[first] = 1 /\ usage_count[second] = 1
           /\ EarlyStages(UVM_CHANNEL_TYPE_GPU_TO_CPU, first)
                = EarlyStages(UVM_CHANNEL_TYPE_GPU_TO_CPU, second)
           /\ ce_caps[first].shared = ce_caps[second].shared

\* C15 (as stated): the usage counts are the numbers of earlier types that
\* selected each CE, and the CE chosen for CPU_TO_GPU has usage count 1 in
\* every later selection and is not chosen again over a CE that ties it on
\* the earlier stages with usage count 0.
UsageCountOfFirstStaysOne ==
    [][PickStep =>
        LET k == picker.i
            type == SelectionOrder[k]
            first == ce_to_use_by_type[UVM_CHANNEL_TYPE_CPU_TO_GPU]
        IN  /\ \A e \in CopyEngines :
                usage_count[e]
                    = Cardinality(SelectedBy(ce_to_use_by_type, k - 1, e))
            /\ (k > 1 /\ first \in CopyEngines) =>
                /\ usage_count[first] = 1
                /\ NotChosenOverLessUsed(type)
      ]_vars

\* ------------------------------------------------------ construction
\* what construction leaves when it has returned an error: every channel it
\* allocated destroyed once, none listed, the pushbuffer and the manager
\* freed, the caller's reference not written
Unwound ==
    /\ \A c \in AllCreated :
        /\ resources.channels[c] \in {"none", "freed"}
        /\ resources.destroy_calls[c]
                = IF resources.channels[c] = "freed" THEN 1 ELSE 0
    /\ resources.all_channels_list = <<>>
    /\ resources.pushbuffer \in {"none", "destroyed"}
    /\ resources.manager \in {"none", "freed"}
    /\ channel_manager_out = "unset"
    /\ mgr_state = "Destroyed"

\* no channel is destroyed twice, and the caller's reference is written only
\* by a construction that returned NV_OK with every channel created, listed
\* and brought up
NothingPartial ==
    /\ \A c \in AllCreated : resources.destroy_calls[c] <= 1
    /\ channel_manager_out = "manager" =>
        /\ ctor.pc = "returned" /\ ctor.status = NV_OK
        /\ resources.manager = "allocated" /\ resources.pushbuffer = "created"
        /\ \A c \in AllCreated :
            /\ resources.channels[c] = "allocated"
            /\ queued_value[c] = 1 /\ sem_payload[c] = 1
        /\ Len(resources.all_channels_list) = Cardinality(AllCreated)

\* C16 (as stated): a construction in which a step fails returns the error of
\* that step with everything it allocated destroyed exactly once and the
\* caller's reference unwritten; the reference is written only when every
\* step succeeded.
ConstructionUnwinds ==
    /\ picker.pc # "crashed"
    /\ (ctor.pc = "error" \/ (ctor.pc = "returned" /\ ctor.status # NV_OK)) =>
            channel_manager_out = "unset"
    /\ (ctor.pc = "returned" /\ ctor.status # NV_OK) =>
            Unwound /\ ret.status = ctor.status
    /\ NothingPartial
    /\ asserts = {}

\* engine selection found no CE for a type and its stray increment hit the
\* frame: construction never returns, with the manager and the pushbuffer
\* allocated and never freed
ConstructionStuck ==
    /\ picker.pc = "crashed"
    /\ ctor.pc = "pick_copy_engines"
    /\ resources.manager = "allocated" /\ resources.pushbuffer = "created"
    /\ ~HasEligible(UVM_CHANNEL_TYPE_GPU_TO_GPU)

\* What holds of every construction that returns: the unwinding C16 states.
ConstructionUnwindsOnReturn ==
    /\ (ctor.pc = "error" \/ (ctor.pc = "returned" /\ ctor.status # NV_OK)) =>
            channel_manager_out = "unset"
    /\ (ctor.pc = "returned" /\ ctor.status # NV_OK) =>
            Unwound /\ ret.status = ctor.status
    /\ NothingPartial
    /\ asserts = {}

\* the status set by the failing step is the one returned
FirstErrorKept ==
    [][ctor.pc = "error" => ctor'.status = ctor.status /\ ctor.status # NV_OK]_vars

\* a construction that succeeded without procfs leaves the state the
\* specifications of the ring protocol start from
ConstructionLeavesInit ==
    (/\ ctor.pc = "returned" /\ ctor.status = NV_OK
     /\ ~ctor.with_procfs) =>
        Constructed(RingSize, [c \in AllCreated |-> 1],
                    [c \in AllCreated |-> 0], [c \in AllCreated |-> 1])

\* an error was returned after channels had been brought up
UnwoundReached ==
    /\ ctor.pc = "returned" /\ ctor.status = NV_ERR_RC_ERROR
    /\ Cardinality({c \in AllCreated : resources.channels[c] = "freed"}) >= 3
    /\ \E c \in DOMAIN retired : retired[c] # <<>>

\* ------------------------------------------------------ posted stores
\* the entries between the GPU's position and the GPPUT the device reads
DevicePending(c) ==
    (device_gp_put(c) - device_get(c) + numGpFifoEntries[c])
        % numGpFifoEntries[c]

\* every entry the GPPUT read by the device covers is, in the memory of the
\* device, the complete entry of the push the GPU runs there: its tracking
\* value, its pushbuffer region, its push info and its hardware entry
DeviceSeesWholeEntries ==
    \A c \in Channels : \A k \in 1..DevicePending(c) :
        LET index == (device_get(c) + k - 1) % numGpFifoEntries[c]
            seen == visible.entries[c][index]
        IN  /\ seen.tracking_semaphore_value = sem_payload[c] + k
            /\ seen.pushbuffer = sem_payload[c] + k
            /\ seen.gpfifo_entry = sem_payload[c] + k
            /\ seen = DeviceEntry(gpfifo_entries[c][index])

\* a tracking value the caller's push shows was covered by a GPPUT the
\* device has read
ReturnFollowsDoorbell ==
    \A t \in Threads :
        LET shown == visible.channel_tracking_value[t]
        IN  shown.value > 0 =>
                shown.value <= sem_payload[shown.channel]
                                + DevicePending(shown.channel)

\* C19: with posted stores the device never reads a GPPUT covering an entry
\* of which a field (tracking value, pushbuffer region, push info, hardware
\* entry) has not reached it, and the tracking value that
\* uvm_channel_end_push() stores last, for the caller, never shows before the
\* GPPUT covering its entry has reached the device: the entry's stores are
\* ordered before the GPPUT store and the GPPUT store before the return.
DoorbellOrdered == DeviceSeesWholeEntries /\ ReturnFollowsDoorbell

\* uvm_channel_end_push() has returned and the device has part of the new
\* entry, the tracking value without the hardware entry, under a GPPUT that
\* does not cover it yet; the GPPUT store waits behind the barrier
DoorbellOrderedReached ==
    \E c \in Channels :
        LET index == (cpu_put[c] + numGpFifoEntries[c] - 1) % numGpFifoEntries[c]
        IN  /\ visible.gp_put[c] = index
            /\ queued_value[c] > 1
            /\ \E k \in 1..Len(store_buffer) :
                    store_buffer[k] = Store(<<"gp_put", c>>, cpu_put[c])
            /\ \E k \in 1..Len(store_buffer) : store_buffer[k] = Fence
            /\ visible.entries[c][index].tracking_semaphore_value
                    = queued_value[c]
            /\ visible.entries[c][index].gpfifo_entry # queued_value[c]

\* ------------------------------------------------------ begin, reserve_type
\* the threads whose successful reserve on channel c has not begun its push
ReservedOn(c) == {t \in Threads : push[t].state = "reserved" /\ push[t].channel = c}

\* C21: a thread that reserved a channel finds a push info on its free list
\* when it begins: the list holds more push infos than there are reserved
\* pushes not yet begun, so the UVM_ASSERT(push_info != NULL) of
\* channel_get_available_push_info_index() never fails and no begin stops in
\* it, however the threads interleave.
BeginFindsPushInfo ==
    /\ "push_info != NULL" \notin asserts
    /\ \A t \in Threads : th[t].pc # "crashed"
    /\ \A c \in Channels :
        Len(available_push_infos[c]) >= Cardinality(ReservedOn(c))
            + (IF alive[c] /\ mgr_state = "Ready" THEN 1 ELSE 0)

\* a begin left one push info on the list of a ring whose every claimable
\* slot is claimed: the pushes of both threads on the channel are begun, the
\* second after progress updates returned the push info of a retired entry
BeginFindsPushInfoReached ==
    /\ ret.op = "begin_push" /\ ret.status = NV_OK
    /\ Len(available_push_infos[ret.ch]) = 1
    /\ retired[ret.ch] # <<>>
    /\ \A t \in Threads : push[t].state = "begun" /\ push[t].channel = ret.ch

\* ------------------------------------------------------------ reserve_type
\* thread t takes the step and is in uvm_channel_reserve_type() before it,
\* after it, or returns from it in the step
ReserveTypeReturned(t) == ret'.t = t /\ ret'.op = "reserve_type"
ReserveTypeStep(t) ==
    /\ th'[t] # th[t] \/ ret'.t = t
    /\ th[t].op = "reserve_type" \/ th'[t].op = "reserve_type"
        \/ ReserveTypeReturned(t)

\* the claims of a call: none before it returns NV_OK, and then one, on the
\* returned channel, which is of the pool asked for (PushPools)
ReserveTypeClaimsOne(t) ==
    IF ReserveTypeReturned(t) /\ ret'.status = NV_OK
    THEN /\ PoolOf(ret'.ch) \in PushPools
         /\ current_pushes_count' =
                [current_pushes_count EXCEPT ![ret'.ch] = @ + 1]
         /\ push'[t] = Reserved(ret'.ch)
         /\ \A u \in Threads \ {t} : push'[u] = push[u]
    ELSE /\ current_pushes_count' = current_pushes_count
         /\ push' = push

\* the first scan (lines 159-165) tests the channels of the pool in list
\* order without updating progress: a channel that is available when it is
\* tested ends the call, and the polling loop starts only after the last
\* channel of the pool was tested and was not available
ReserveTypeFirstScan(t) ==
    /\ th[t].pc \in {"idle", "rt_scan"} =>
        /\ gpu_get' = gpu_get /\ retired' = retired
        /\ available_push_infos' = available_push_infos
    /\ th[t].pc = "rt_scan" /\ is_channel_available(th[t].ch) =>
        /\ ReserveTypeReturned(t) /\ ret'.status = NV_OK
        /\ ret'.ch = th[t].ch
    /\ th[t].pc = "idle" /\ ~ReserveTypeReturned(t) =>
        /\ th'[t].pc = "rt_scan" /\ th'[t].idx = 2
        /\ ~is_channel_available(PoolChannel(PoolOf(th'[t].ch), 1))
    /\ th[t].pc = "rt_scan" /\ ~ReserveTypeReturned(t) =>
        /\ ~is_channel_available(th[t].ch)
        /\ IF th[t].idx < UVM_CHANNELS_PER_POOL
           THEN th'[t].pc = "rt_scan" /\ th'[t].idx = th[t].idx + 1
           ELSE th'[t].pc = "up_read" /\ th'[t].idx = 1

\* C22: uvm_channel_reserve_type() that returns NV_OK has claimed one
\* channel, of the pool of the type asked for, and raised the
\* current_pushes_count of that channel alone by one; no other step of the
\* call changes a count.  Its first scan updates no progress: a channel that
\* is available when the scan tests it ends the call with gpu_get of every
\* channel as it was.
ReserveTypeFrame ==
    [][\A t \in Threads : ReserveTypeStep(t) =>
            ReserveTypeClaimsOne(t) /\ ReserveTypeFirstScan(t)]_vars

\* the first scan went past the first channel of the pool, which cannot be
\* claimed, and claimed the second
ReserveTypeFrameReached ==
    /\ ret.op = "reserve_type" /\ ret.status = NV_OK
    /\ ret.ch = PoolChannel(0, 2)
    /\ ~is_channel_available(PoolChannel(0, 1))
    /\ current_pushes_count[ret.ch] = 1
    /\ push[ret.t] = Reserved(ret.ch)

\* ----------------------------------------------------------- channel status
\* thread t's step evaluates uvm_channel_get_status() at line 384: the first
\* step of uvm_channel_check_errors(), called by the API's caller or by a
\* waiter
StatusRead(t) ==
    \/ th[t].pc = "ce_status" /\ th'[t] # th[t]
    \/ /\ th[t].pc = "idle"
       /\ th'[t].op = "check_errors" \/ (ret'.t = t /\ ret'.op = "check_errors")
\* the channel whose status the step reads
StatusReadChannel(t) ==
    IF th[t].pc = "ce_status" THEN th[t].ch
    ELSE IF ret'.t = t THEN ret'.ch ELSE th'[t].ch
\* the step found a status other than NV_OK: check_errors goes on to
\* uvm_channel_get_fatal_entry() (line 391) with the status in its local
StatusReadError(t) ==
    /\ th'[t].pc = "up_read"
    /\ th'[t].stack # <<>> /\ Head(th'[t].stack) = "ce_entry"

\* C23: the status of a channel is NV_OK exactly when the status field of its
\* error notifier is zero; when it is not zero, the status is
\* NV_ERR_ECC_ERROR exactly when ECC is enabled and the GPU's ECC error
\* notifier is set at the moment of the read, and NV_ERR_RC_ERROR otherwise.
ChannelStatusByNotifier ==
    [][\A t \in Threads : StatusRead(t) =>
        LET c == StatusReadChannel(t)
        IN  /\ StatusReadError(t) <=> errorNotifier[c] # 0
            /\ StatusReadError(t) =>
                /\ th'[t].cstatus \in {NV_ERR_ECC_ERROR, NV_ERR_RC_ERROR}
                /\ th'[t].cstatus = NV_ERR_ECC_ERROR
                    <=> (ecc_enabled /\ ecc_error_notifier)]_vars

\* with ECC enabled, a channel in error was read as NV_ERR_RC_ERROR before
\* the ECC error notifier was written and is read as NV_ERR_ECC_ERROR after
ChannelStatusByNotifierReached ==
    /\ ecc_enabled /\ ecc_error_notifier
    /\ global_status = NV_ERR_RC_ERROR
    /\ \E t \in Threads :
        /\ th[t].cstatus = NV_ERR_ECC_ERROR
        /\ errorNotifier[th[t].ch] # 0

\* ------------------------------------------------------------ check_errors
\* thread t's step is the end of uvm_channel_check_errors() for a channel in
\* error (lines 398-399)
CheckErrorsEnds(t) == th[t].pc = "ce_set_fatal" /\ th'[t] # th[t]

\* C24: uvm_channel_check_errors() that finds its channel in error sets the
\* fatal status, which keeps the first status set, before it returns, and
\* returns the status it read for the channel, to the API's caller or to the
\* waiter that polls; for a channel without error it returns NV_OK and
\* changes neither the fatal status nor the ring.
CheckErrorsEscalates ==
    [][\A t \in Threads :
        /\ CheckErrorsEnds(t) =>
            /\ th[t].cstatus \in FaultStatuses
            /\ errorNotifier[th[t].ch] # 0
            /\ global_status' # NV_OK
            /\ global_status' =
                IF global_status = NV_OK THEN th[t].cstatus ELSE global_status
            /\ IF ret'.t = t THEN ret'.status = th[t].cstatus
               ELSE th'[t].status = th[t].cstatus
        /\ (ret'.t = t /\ ret'.op = "check_errors" /\ ret'.status # NV_OK) =>
            CheckErrorsEnds(t)
        /\ (StatusRead(t) /\ errorNotifier[StatusReadChannel(t)] = 0) =>
            /\ ~StatusReadError(t)
            /\ UNCHANGED <<ring, retired, device, global_status>>
            /\ th[t].pc = "idle" =>
                /\ ret'.t = t /\ ret'.op = "check_errors"
                /\ ret'.status = NV_OK
      ]_vars

\* a check of a channel in error with an entry pending has set the fatal
\* status and returned the channel's status to the API's caller
CheckErrorsEscalatesReached ==
    /\ ret.op = "check_errors" /\ ret.status = NV_ERR_RC_ERROR
    /\ global_status = NV_ERR_RC_ERROR
    /\ errorNotifier[ret.ch] # 0
    /\ gpu_get[ret.ch] # cpu_put[ret.ch]

\* ------------------------------------------------------------- fatal entry
\* the tracking values of the entries of channel c that no progress update
\* has retired
Unretired(c) ==
    {v \in 1..queued_value[c] : \A i \in DOMAIN retired[c] : retired[c][i] # v}
\* the tracking values retired on channel c, before and after the step
RetiredValues(c) == {retired[c][i] : i \in DOMAIN retired[c]}
RetiredValuesAfter(c) == {retired'[c][i] : i \in DOMAIN retired'[c]}

\* thread t's step is the locked walk of the channel_update_progress_all()
\* that uvm_channel_get_first_pending_entry() calls at line 337
FatalEntryWalk(t) ==
    /\ th[t].pc = "up_walk" /\ th'[t] # th[t]
    /\ th[t].stack # <<>> /\ Head(th[t].stack) = "ce_entry"
\* thread t's step is the locked read of lines 344-349
FatalEntryRead(t) == th[t].pc = "ce_entry" /\ th'[t] # th[t]

FatalEntryReportedIsOldest ==
    \A t \in Threads :
        (th[t].pc = "ce_set_fatal" /\ th[t].entry # NULL) =>
            LET v == fatal_entry_read(th[t]).tracking_semaphore_value
            IN  \/ v = th[t].fatal
                \/ /\ v \in Unretired(th[t].ch)
                   /\ \A u \in Unretired(th[t].ch) : v <= u

\* the error print is about to name the newest entry of the ring while an
\* older one is not retired
FatalEntryReportedNewer ==
    \E t \in Threads :
        /\ th[t].pc = "ce_set_fatal" /\ th[t].entry # NULL
        /\ \E u \in Unretired(th[t].ch) :
                u < fatal_entry_read(th[t]).tracking_semaphore_value
        /\ fatal_entry_read(th[t]).tracking_semaphore_value
                = queued_value[th[t].ch]

RingReadUnderLock ==
    \A t \in Threads :
        (th[t].pc = "ce_set_fatal" /\ th[t].entry # NULL) =>
            fatal_entry_read(th[t]).tracking_semaphore_value = th[t].fatal

\* the entry a check found at gpu_get was retired and its slot written by a
\* later push before the check reads it for the error print
StaleFatalEntry ==
    \E t \in Threads :
        /\ th[t].pc = "ce_set_fatal" /\ th[t].entry # NULL
        /\ th[t].fatal \in RetiredValues(th[t].ch)
        /\ fatal_entry_read(th[t]).tracking_semaphore_value > th[t].fatal

\* ------------------------------------------------------------ manager wait
\* thread t's step returns from uvm_channel_manager_wait()
ManagerWaitReturns(t) == ret'.t = t /\ ret'.op = "manager_wait"
\* the step is the last one of a uvm_channel_manager_check_errors() that
\* finds no error: the status of the last channel is read
ManagerCheckPasses(t) ==
    /\ th[t].pc = "ce_status" /\ th[t].idx = NumChannels
    /\ global_status' = global_status
\* the step is the end of a uvm_channel_manager_update_progress() pass
\* (line 123) that the loop's test at line 198 called
ManagerWaitLoopTest(t) ==
    /\ th[t].pc = "up_walk" /\ th[t].idx = NumChannels
    /\ th[t].stack = <<"mu_next", "mw_loop">>

\* C27 (as stated): uvm_channel_manager_wait() returns NV_OK only after a
\* pass of uvm_channel_manager_update_progress() reported no pending entry
\* and uvm_channel_manager_check_errors() reported no error to it.
ManagerWaitOkChecked ==
    [][\A t \in Threads :
        (ManagerWaitReturns(t) /\ ret'.status = NV_OK) =>
            ManagerCheckPasses(t) \/ th[t].checked]_vars

\* a wait that has called no check yet is about to end its second pass with
\* no entry pending while the fatal status is set
ManagerWaitUnchecked ==
    \E t \in Threads :
        /\ th[t].op = "manager_wait" /\ ~th[t].checked
        /\ ManagerWaitLoopTest(t)
        /\ th[t].acc = 0 /\ gpu_get[th[t].ch] = cpu_put[th[t].ch]
        /\ global_status # NV_OK

\* what holds of every return of uvm_channel_manager_wait(): it follows a
\* pass that counted no pending entry, or a check that reported the status
\* returned; a status other than NV_OK is one a check reported; the wait
\* does not return while its passes count pending entries and its checks
\* report no error
ManagerWaitOnReturn ==
    [][\A t \in Threads :
        /\ ManagerWaitReturns(t) =>
            \/ /\ th[t].pc \in {"mc_global", "ce_status", "ce_set_fatal"}
               /\ th[t].stack = <<>> \/ th[t].stack = <<"mc_checked">>
               /\ ~th[t].checked
            \/ /\ ManagerWaitLoopTest(t)
               /\ ret'.status = th[t].status
               /\ ret'.status # NV_OK => th[t].checked
               /\ ret'.status = NV_OK =>
                    th[t].acc = 0 /\ gpu_get'[th[t].ch] = cpu_put[th[t].ch]
        /\ (ManagerWaitLoopTest(t) /\ th'[t] # th[t] /\ th[t].status = NV_OK
                /\ (th[t].acc > 0 \/ gpu_get'[th[t].ch] # cpu_put[th[t].ch])) =>
            ~ManagerWaitReturns(t) /\ th'[t].pc = "mc_global"
      ]_vars

\* ------------------------------------------------- usage count indices
\* the channel types pick_ce_for_channel_type() has been run for
PickedTypes ==
    LET n == CASE picker.pc = "pick" -> picker.i - 1
               [] picker.pc = "crashed" -> picker.i
               [] picker.pc \in {"check", "returned"} -> Len(PickOrder)
               [] OTHER -> 0
    IN  {PickOrder[k] : k \in 1..n}

\* C28 (as stated): every index at which pick_ce_for_channel_type() reads or
\* increments usage_count[] is below UVM_COPY_ENGINE_COUNT_MAX, whatever the
\* capability table; the index of the increment of line 762 is best_ce, the
\* value line 763 stores for the type.
UsageIndexInRange ==
    \A type \in PickedTypes : ce_to_use_by_type[type] \in CopyEngines

\* the selection has returned after it incremented
\* usage_count[UVM_COPY_ENGINE_COUNT_MAX] for a type without a usable CE
UsageIndexPastEnd ==
    /\ picker.pc = "returned" /\ picker.status = NV_ERR_NOT_SUPPORTED
    /\ \E type \in ChannelTypes :
        /\ ~HasEligible(type)
        /\ ce_to_use_by_type[type] = UVM_COPY_ENGINE_COUNT_MAX
    /\ \E type \in ChannelTypes : ce_to_use_by_type[type] \in CopyEngines

\* what holds of the other indices: the reads of usage_count[] in
\* compare_ce_for_channel_type() are at indices of usable CEs, and a type
\* with a usable CE increments the count of a CE
UsageIndexInRangeWhenEligible ==
    \A type \in PickedTypes :
        HasEligible(type) => ce_to_use_by_type[type] \in CopyEngines

\* ---------------------------------------------------------- blocked reserve
\* C29: while the channel has no error, the GPU completes the entries it is
\* given and the other thread ends the push it claimed, a thread whose
\* uvm_channel_reserve() found the ring full returns NV_OK in the end: the
\* progress updates of its own loop retire the completed entries, no other
\* thread updates progress.
BlockedReserveReturns ==
    \A t \in Blocked :
        (th[t].op = "reserve")
            ~> (ret.t = t /\ ret.op = "reserve" /\ ret.status = NV_OK)

\* the reserve of the polling thread has returned NV_OK on a ring that was
\* full at its call: no push was ended since the start, the one retired
\* entry was retired by the caller's own progress update, and the other
\* thread has claimed no slot
BlockedReserveReturnsReached ==
    /\ ret.t \in Blocked /\ ret.op = "reserve" /\ ret.status = NV_OK
    /\ queued_value[ret.ch] = LiveRingSize
    /\ Len(retired[ret.ch]) = 2
    /\ \A t \in Others : push[t].state = "none"
====
